---- MODULE Spec2Model ----
(***************************************************************************)
(* Model of the OSL shader compiler and shader manager of Cycles           *)
(* (intern/cycles/render/osl.cpp).                                         *)
(*                                                                         *)
(* Two state machines share this module:                                   *)
(*   Spec        one OSLCompiler::compile_type call on a shader graph:     *)
(*               node_skip_input, find_dependencies, generate_nodes        *)
(*   SpecShared  several render sessions, each with its OSLShaderManager,  *)
(*               sharing the static texture system, shading system and     *)
(*               the three static mutexes                                  *)
(***************************************************************************)
EXTENDS Integers, Sequences, FiniteSets, TLC

(***************************************************************************)
(* Bounds of the model.                                                    *)
(***************************************************************************)
\* number of nodes of a shader graph besides its Output node
MaxNodes == 4
\* size of a shader graph: its links plus its Bump nodes
MaxGraphSize == 5
\* render sessions of the process, each with its own OSLShaderManager
MaxSessions == 2
\* shaders of a scene
MaxShaders == 2
\* texture systems, and shading systems, constructed in one run
MaxInstances == 2
\* layers of one shader group
MaxLayers == 1
\* size of a shader graph that is compiled twice: its links plus its nodes
\* that bind a texture
MaxTextureGraphSize == 3
\* nodes of the dependency set of one context of a shader of a scene
MaxCompileNodes == 2
\* graphs a shader of a scene is given, the first one included
MaxGraphVersions == 2
\* the latest modification time a file can get
MaxTime == 3
\* requests for shaders made to the managers of the process
MaxRequests == 2
\* parameters a shader declares
MaxParams == 2
\* @svm names made in the process
MaxTextures == 3
\* slots of the SVM stack
SVM_STACK_SIZE == 4
\* values one context gives stack space to
MaxValues == 3
\* users one value has at a time
MaxUsers == 2

(***************************************************************************)
(* The shader graph.  Nodes are identified by their id; std::set with      *)
(* ShaderNodeIDComparator iterates a ShaderNodeSet by ascending id.        *)
(***************************************************************************)
NULL == 0
Nodes == 1..MaxNodes
OutputNode == MaxNodes + 1
AllNodes == Nodes \cup {OutputNode}

SHADER_TYPE_SURFACE == "SHADER_TYPE_SURFACE"
SHADER_TYPE_VOLUME == "SHADER_TYPE_VOLUME"
SHADER_TYPE_DISPLACEMENT == "SHADER_TYPE_DISPLACEMENT"
SHADER_TYPE_BUMP == "SHADER_TYPE_BUMP"
ShaderType ==
  {SHADER_TYPE_SURFACE, SHADER_TYPE_VOLUME, SHADER_TYPE_DISPLACEMENT, SHADER_TYPE_BUMP}

SHADER_SPECIAL_TYPE_NONE == "SHADER_SPECIAL_TYPE_NONE"
SHADER_SPECIAL_TYPE_BUMP == "SHADER_SPECIAL_TYPE_BUMP"
SHADER_SPECIAL_TYPE_OUTPUT == "SHADER_SPECIAL_TYPE_OUTPUT"

\* the input sockets of a node, in the order of node->inputs
OutputInputs == <<"Surface", "Volume", "Displacement", "Normal">>
BumpInputs == <<"Height", "Normal">>
\* any other node: two inputs that can be linked and one internal-only input
\* (socket flag SVM_INTERNAL), which the authoring layer never links
PlainInputs == <<"Color", "Strength", "SurfaceMixWeight">>

VARIABLES
  special_type,   \* node -> ShaderNode::special_type
  link,           \* node -> input index -> id of input->link->parent, or NULL
  pc,             \* position of the compiler in compile_type
  current_type,   \* OSLCompiler::current_type
  dependencies,   \* the ShaderNodeSet of compile_type
  done,           \* generate_nodes: ShaderNodeSet done
  nodes_done,     \* generate_nodes: bool nodes_done
  cursor,         \* generate_nodes: the node the foreach visited last, NULL before the first
  emitted,        \* the node->compile calls of this compile_type, in order
  connections,    \* the ss->ConnectShaders calls: <<source node, node, input index>>
  scans,          \* history: scans of generate_nodes begun so far
  scan_emitted,   \* history: nodes compiled in the scan under way
  texture,        \* node -> its compile calls parameter_texture(name, svm_slot)
  texture_shared_unique_id,  \* static OSLCompiler::texture_shared_unique_id
  parameters,     \* the texture parameters set: <<node, filename>>
  previous        \* history: the outputs of the earlier compile_type calls on this graph

VARIABLES
  mgr_pc,            \* session -> position of its thread in its OSLShaderManager
  ts,                \* session -> OSLShaderManager::ts
  ss,                \* session -> OSLShaderManager::ss
  services,          \* session -> OSLShaderManager::services
  shaders_left,      \* session -> shaders the loop of host_update_specific has yet to visit
  ts_shared,         \* static OSLShaderManager::ts_shared
  ts_shared_users,   \* static OSLShaderManager::ts_shared_users
  ts_shared_mutex,   \* static OSLShaderManager::ts_shared_mutex: the session holding it
  ss_shared,         \* static OSLShaderManager::ss_shared
  services_shared,   \* static OSLShaderManager::services_shared
  ss_shared_users,   \* static OSLShaderManager::ss_shared_users
  ss_shared_mutex,   \* static OSLShaderManager::ss_shared_mutex: the session holding it
  ss_mutex,          \* static OSLShaderManager::ss_mutex: the session holding it
  ss_group,          \* the shading system's group under construction: the session that began it
  ss_group_layers,   \* layers added to the group under construction
  ts_created,        \* history: texture systems constructed so far
  ss_created,        \* history: shading systems constructed so far
  ss_shared_ts       \* the TextureSystem ss_shared and services_shared were constructed with

VARIABLES
  scene_pc,        \* position of the scene's thread in its OSLShaderManager
  scene_shaders,   \* scene->shaders.size()
  shaders,         \* scene->shaders: index -> the fields of the Shader
  background,      \* index of scene->background->get_shader(scene)
  shader_index,    \* host_update_specific: position of its loop in scene->shaders
  progress_cancel, \* progress.get_cancel()
  need_update,     \* ShaderManager::need_update(): update_flags != UPDATE_NONE
  has_bump,        \* OSLCompiler::compile: bool has_bump
  group,           \* compile_type: the group begun and not yet ended, or EmptyRef
  nodes_emitted,   \* compile_type: nodes compiled into the group so far
  og,              \* OSLGlobals of the device
  sealed,          \* history: the groups ss->ShaderGroupEnd has ended
  reported,        \* history: what the nodes emitted in the Surface context reported
  skipped          \* history: modified shaders the last cancelled pass did not visit

scene_vars ==
  <<scene_pc, scene_shaders, shaders, background, shader_index, progress_cancel, need_update,
    has_bump,
    group, nodes_emitted, og, sealed, reported, skipped>>

shared_vars ==
  <<mgr_pc, ts, ss, services, shaders_left, ts_shared, ts_shared_users, ts_shared_mutex,
    ss_shared, services_shared, ss_shared_users, ss_shared_mutex, ss_mutex, ss_group,
    ss_group_layers, ts_created, ss_created, ss_shared_ts>>

graph_vars == <<special_type, link, texture>>
compile_vars ==
  <<pc, current_type, dependencies, done, nodes_done, cursor, emitted, connections, scans,
    scan_emitted, texture_shared_unique_id, parameters, previous>>
VARIABLES
  fs_mtime,        \* file -> path_modified_time of the file, 0 when there is none
  fs_readable,     \* file -> path_read_text of it succeeds (an .osl: osl_compile of it does)
  fs_clock,        \* the latest modification time given to a file
  loaded_shaders,  \* manager -> the keys of OSLShaderManager::loaded_shaders
  load_log         \* history: the requests for shaders made so far, in order

load_rest_vars == <<fs_mtime, fs_readable, fs_clock, load_log>>
load_vars == <<load_rest_vars, loaded_shaders>>
VARIABLES
  node_pc,         \* where osl_node is, after it has found the OSLShaderInfo
  query,           \* info->query: the declared parameters, in order
  param_index,     \* i of the loop over the parameters that is running
  num_inputs,      \* the inputs counted, which OSLNode::create reserves
  node_inputs,     \* node->inputs: <<parameter, socket type>> in the order added
  node_outputs     \* node->outputs: <<parameter, socket type>> in the order added

osl_node_vars == <<node_pc, query, param_index, num_inputs, node_inputs, node_outputs>>
VARIABLES
  svm_read,        \* session -> the texture_shared_unique_id its ++ has read, or NoRead
  svm_filenames    \* history: <<session, id>> of the @svm names made, in order

svm_vars == <<svm_read, svm_filenames>>
VARIABLES
  svm_pc,            \* where SVMCompiler::compile is: "begin", "generate" or "done"
  svm_context,       \* the position in SvmContexts of the context compile_type is at
  active_stack,      \* SVMCompiler::active_stack.users
  stack_offset,      \* value -> ShaderOutput::stack_offset, SVM_STACK_INVALID when none
  stack_size,        \* value -> the slots its socket type takes, 0 while unassigned
  stack_users,       \* value -> the users of the value that have not released it
  max_stack_use,     \* SVMCompiler::max_stack_use
  compile_failed,    \* SVMCompiler::compile_failed
  current_svm_nodes, \* the number of instructions in SVMCompiler::current_svm_nodes
  svm_nodes,         \* context -> what compile has put into the program of the shader
  svm_failed         \* history: the contexts whose compile_type ran out of stack

stack_vars ==
  <<svm_pc, svm_context, active_stack, stack_offset, stack_size, stack_users, max_stack_use,
    compile_failed, current_svm_nodes, svm_nodes, svm_failed>>

\* the state of the parts of the program outside graphs, sessions and scenes,
\* and that state without loaded_shaders
ext_rest_vars == <<load_rest_vars, osl_node_vars, svm_vars, stack_vars>>
ext_vars == <<loaded_shaders, ext_rest_vars>>

vars == <<graph_vars, compile_vars, shared_vars, scene_vars, ext_vars>>

Inputs(node) ==
  IF special_type[node] = SHADER_SPECIAL_TYPE_OUTPUT THEN OutputInputs
  ELSE IF special_type[node] = SHADER_SPECIAL_TYPE_BUMP THEN BumpInputs
  ELSE PlainInputs

NumInputs(node) == Len(Inputs(node))

InputName(node, i) == Inputs(node)[i]

\* input->flags() & SocketType::SVM_INTERNAL
SvmInternal(node, i) == InputName(node, i) = "SurfaceMixWeight"

(***************************************************************************)
(* OSLCompiler::node_skip_input                                            *)
(***************************************************************************)
\* node_skip_input with the Normal input of the Output node tested against
\* the Surface context
NodeSkipInputNormalSurface(type, node, i) ==
  IF SvmInternal(node, i) THEN TRUE
  ELSE IF special_type[node] = SHADER_SPECIAL_TYPE_OUTPUT THEN
    \/ InputName(node, i) = "Surface" /\ type # SHADER_TYPE_SURFACE
    \/ InputName(node, i) = "Volume" /\ type # SHADER_TYPE_VOLUME
    \/ InputName(node, i) = "Displacement" /\ type # SHADER_TYPE_DISPLACEMENT
    \/ InputName(node, i) = "Normal" /\ type # SHADER_TYPE_SURFACE
  ELSE IF special_type[node] = SHADER_SPECIAL_TYPE_BUMP THEN
    InputName(node, i) = "Height"
  ELSE
    /\ type = SHADER_TYPE_DISPLACEMENT
    /\ link[node][i] # NULL
    /\ special_type[link[node][i]] = SHADER_SPECIAL_TYPE_BUMP

\* node_skip_input without the rule for links from a Bump node
NodeSkipInputNoBumpRule(type, node, i) ==
  IF SvmInternal(node, i) THEN TRUE
  ELSE IF special_type[node] = SHADER_SPECIAL_TYPE_OUTPUT THEN
    \/ InputName(node, i) = "Surface" /\ type # SHADER_TYPE_SURFACE
    \/ InputName(node, i) = "Volume" /\ type # SHADER_TYPE_VOLUME
    \/ InputName(node, i) = "Displacement" /\ type # SHADER_TYPE_DISPLACEMENT
    \/ InputName(node, i) = "Normal" /\ type # SHADER_TYPE_BUMP
  ELSE IF special_type[node] = SHADER_SPECIAL_TYPE_BUMP THEN
    InputName(node, i) = "Height"
  ELSE FALSE

NodeSkipInput(type, node, i) ==
  IF SvmInternal(node, i) THEN TRUE
  ELSE IF special_type[node] = SHADER_SPECIAL_TYPE_OUTPUT THEN
    \/ InputName(node, i) = "Surface" /\ type # SHADER_TYPE_SURFACE
    \/ InputName(node, i) = "Volume" /\ type # SHADER_TYPE_VOLUME
    \/ InputName(node, i) = "Displacement" /\ type # SHADER_TYPE_DISPLACEMENT
    \/ InputName(node, i) = "Normal" /\ type # SHADER_TYPE_BUMP
  ELSE IF special_type[node] = SHADER_SPECIAL_TYPE_BUMP THEN
    InputName(node, i) = "Height"
  ELSE
    /\ type = SHADER_TYPE_DISPLACEMENT
    /\ link[node][i] # NULL
    /\ special_type[link[node][i]] = SHADER_SPECIAL_TYPE_BUMP

node_skip_input(node, i) == NodeSkipInput(current_type, node, i)

(***************************************************************************)
(* OSLCompiler::find_dependencies.  The input is the i-th input of node    *)
(* `of`; the result is the dependency set after the call.                  *)
(***************************************************************************)
RECURSIVE FindDependencies(_, _, _, _)
RECURSIVE FindDependenciesInputs(_, _, _, _)

\* find_dependencies that follows only the first relevant input of a node
FindDependenciesInputsFirstOnly(type, deps, node, k) ==
  IF k > 1 THEN deps
  ELSE IF ~NodeSkipInput(type, node, k) THEN FindDependencies(type, deps, node, k)
  ELSE deps

\* find_dependencies that follows every input, node_skip_input forgotten
FindDependenciesInputsNoSkip(type, deps, node, k) ==
  IF k > NumInputs(node) THEN deps
  ELSE FindDependenciesInputs(type, FindDependencies(type, deps, node, k), node, k + 1)

\* foreach (ShaderInput *in, node->inputs), from the k-th input on
FindDependenciesInputs(type, deps, node, k) ==
  IF k > NumInputs(node) THEN deps
  ELSE FindDependenciesInputs(
         type,
         IF ~NodeSkipInput(type, node, k) THEN FindDependencies(type, deps, node, k)
         ELSE deps,
         node,
         k + 1)

FindDependencies(type, deps, of, i) ==
  LET node == link[of][i] IN
  IF node # NULL /\ node \notin deps
  THEN FindDependenciesInputs(type, deps, node, 1) \cup {node}
  ELSE deps

(***************************************************************************)
(* OSLCompiler::generate_nodes                                             *)
(***************************************************************************)
\* a readiness test that waits for every linked input, skipped or not
InputsDoneNoSkip(type, node, isdone) ==
  \A i \in 1..NumInputs(node) :
    ~(link[node][i] # NULL /\ link[node][i] \notin isdone)

\* the readiness test looking at the first input only
InputsDoneFirstOnly(type, node, isdone) ==
  ~NodeSkipInput(type, node, 1) => ~(link[node][1] # NULL /\ link[node][1] \notin isdone)

\* the inner foreach over node->inputs: is every relevant linked input done
InputsDone(type, node, isdone) ==
  \A i \in 1..NumInputs(node) :
    ~NodeSkipInput(type, node, i) =>
      ~(link[node][i] # NULL /\ link[node][i] \notin isdone)

\* an iteration whose order changes from one compilation to the next:
\* ascending in the first, descending in the later ones
NextNodeOrderChanges(nodes, last) ==
  IF Len(previous) = 0
  THEN IF \E n \in nodes : n > last
       THEN CHOOSE n \in nodes : n > last /\ \A m \in nodes : m > last => n <= m
       ELSE NULL
  ELSE IF \E n \in nodes : last = NULL \/ n < last
       THEN CHOOSE n \in nodes :
              /\ last = NULL \/ n < last
              /\ \A m \in nodes : (last = NULL \/ m < last) => m <= n
       ELSE NULL

\* foreach (ShaderNode *node, nodes): the node after `last` by ascending id
NextNode(nodes, last) ==
  IF \E n \in nodes : n > last
  THEN CHOOSE n \in nodes : n > last /\ \A m \in nodes : m > last => n <= m
  ELSE NULL

\* OSLCompiler::add, "link inputs to other nodes": the ConnectShaders calls
\* that node->compile makes
AddConnections(type, node) ==
  {<<link[node][i], node, i>> :
     i \in {j \in 1..NumInputs(node) : link[node][j] # NULL /\ ~NodeSkipInput(type, node, j)}}

\* the input of the Output node a context starts from
RootInput(type) ==
  IF type = SHADER_TYPE_SURFACE THEN 1
  ELSE IF type = SHADER_TYPE_VOLUME THEN 2
  ELSE IF type = SHADER_TYPE_DISPLACEMENT THEN 3
  ELSE 4

(***************************************************************************)
(* The graph handed to the compiler.  The authoring layer builds it by     *)
(* connecting sockets; a ShaderGraph is acyclic, its Output node has no    *)
(* output sockets, and nodes no link leads to from the Output node are     *)
(* never looked at by the compiler, so links are only made below it.       *)
(***************************************************************************)
RECURSIVE Upstream(_, _)
\* the nodes reachable from the nodes of `from` along links, `from` included
Upstream(from, seen) ==
  IF from = {} THEN seen
  ELSE Upstream(
         UNION {{link[n][i] : i \in 1..NumInputs(n)} : n \in from}
           \ ({NULL} \cup seen \cup from),
         seen \cup from)

GraphSize ==
  Cardinality({<<n, i>> \in AllNodes \X (1..4) : i <= NumInputs(n) /\ link[n][i] # NULL})
  + Cardinality({n \in Nodes : special_type[n] = SHADER_SPECIAL_TYPE_BUMP})
  + Cardinality({n \in Nodes : texture[n]})

InitGraph ==
  /\ special_type = [n \in AllNodes |->
       IF n = OutputNode THEN SHADER_SPECIAL_TYPE_OUTPUT ELSE SHADER_SPECIAL_TYPE_NONE]
  /\ link = [n \in AllNodes |-> [i \in 1..4 |-> NULL]]
  /\ pc = "graph"
  /\ current_type = SHADER_TYPE_SURFACE
  /\ dependencies = {}
  /\ done = {}
  /\ nodes_done = TRUE
  /\ cursor = NULL
  /\ emitted = <<>>
  /\ connections = {}
  /\ scans = 0
  /\ scan_emitted = 0
  /\ texture = [n \in AllNodes |-> FALSE]
  /\ texture_shared_unique_id = 0
  /\ parameters = {}
  /\ previous = <<>>

Sessions == 1..MaxSessions

\* the state of the process before any OSLShaderManager is constructed
InitShared ==
  /\ mgr_pc = [s \in Sessions |-> "none"]
  /\ ts = [s \in Sessions |-> NULL]
  /\ ss = [s \in Sessions |-> NULL]
  /\ services = [s \in Sessions |-> NULL]
  /\ shaders_left = [s \in Sessions |-> 0]
  /\ ts_shared = NULL
  /\ ts_shared_users = 0
  /\ ts_shared_mutex = NULL
  /\ ss_shared = NULL
  /\ services_shared = NULL
  /\ ss_shared_users = 0
  /\ ss_shared_mutex = NULL
  /\ ss_mutex = NULL
  /\ ss_group = NULL
  /\ ss_group_layers = 0
  /\ ts_created = 0
  /\ ss_created = 0
  /\ ss_shared_ts = NULL

\* the managers of alive are constructed and no other: one texture system and
\* one shading system, shared by them
InitConstructed(alive) ==
  /\ mgr_pc = [s \in Sessions |-> IF s \in alive THEN "idle" ELSE "none"]
  /\ ts = [s \in Sessions |-> IF s \in alive THEN 1 ELSE NULL]
  /\ ss = [s \in Sessions |-> IF s \in alive THEN 1 ELSE NULL]
  /\ services = [s \in Sessions |-> IF s \in alive THEN 1 ELSE NULL]
  /\ shaders_left = [s \in Sessions |-> 0]
  /\ ts_shared = 1
  /\ ts_shared_users = Cardinality(alive)
  /\ ts_shared_mutex = NULL
  /\ ss_shared = 1
  /\ services_shared = 1
  /\ ss_shared_users = Cardinality(alive)
  /\ ss_shared_mutex = NULL
  /\ ss_mutex = NULL
  /\ ss_group = NULL
  /\ ss_group_layers = 0
  /\ ts_created = 1
  /\ ss_created = 1
  /\ ss_shared_ts = 1

\* the session whose OSLShaderManager is the scene's shader_manager
SceneManager == 1

\* enum DisplacementMethod
DISPLACE_BUMP == "DISPLACE_BUMP"
DISPLACE_TRUE == "DISPLACE_TRUE"
DISPLACE_BOTH == "DISPLACE_BOTH"
DisplacementMethod == {DISPLACE_BUMP, DISPLACE_TRUE, DISPLACE_BOTH}

\* OSL::ShaderGroupRef(): the empty handle
EmptyRef == <<>>

\* what the compiler reads of a shader's finalized graph and settings: which
\* inputs of the Output node are linked, get_displacement_method() and
\* reference_count() != 0
ShaderGraphs ==
  [surface : BOOLEAN, volume : BOOLEAN, displacement : BOOLEAN,
   displacement_method : DisplacementMethod, referenced : BOOLEAN]

\* the graphs of the shaders of a scene with several shaders
SceneGraphs ==
  {gr \in ShaderGraphs :
     /\ ~gr.volume /\ ~gr.displacement /\ gr.referenced
     /\ gr.displacement_method = DISPLACE_BUMP}

\* what a node reports of itself: has_surface_emission(),
\* has_surface_transparent(), has_bump(), or the same in the OSLShaderInfo of
\* its script
NodeReports == SUBSET {"emission", "transparent", "bump"}
SceneNodeReports == {{}, {"emission"}}

\* a shader the scene has just been given, not compiled yet
NewShader(graph) ==
  [graph |-> graph, version |-> 1, is_modified |-> TRUE,
   has_surface |-> FALSE, has_surface_emission |-> FALSE, has_surface_transparent |-> FALSE,
   has_bump |-> FALSE, has_volume |-> FALSE, has_displacement |-> FALSE,
   osl_surface_ref |-> EmptyRef, osl_surface_bump_ref |-> EmptyRef,
   osl_volume_ref |-> EmptyRef, osl_displacement_ref |-> EmptyRef]

\* OSLGlobals after device_free
FreedGlobals ==
  [use |-> FALSE, surface_state |-> <<>>, volume_state |-> <<>>,
   displacement_state |-> <<>>, bump_state |-> <<>>, background_state |-> EmptyRef,
   ss |-> NULL, ts |-> NULL, services |-> NULL]

\* a scene of n shaders with graphs of `graphs`, none compiled, tagged for update
InitSceneOf(n, graphs) ==
  /\ scene_pc = "idle"
  /\ scene_shaders = n
  /\ shaders \in {[i \in 1..n |-> NewShader(f[i])] : f \in [1..n -> graphs]}
  /\ background \in 1..n
  /\ shader_index = 1
  /\ progress_cancel = FALSE
  /\ need_update = TRUE
  /\ has_bump = FALSE
  /\ group = EmptyRef
  /\ nodes_emitted = 0
  /\ og = FreedGlobals
  /\ sealed = {}
  /\ reported = {}
  /\ skipped = {}

DefaultGraph ==
  [surface |-> TRUE, volume |-> FALSE, displacement |-> FALSE,
   displacement_method |-> DISPLACE_BUMP, referenced |-> TRUE]

\* the .osl source, the .oso beside it, and an .oso in the search path
OslFile == <<"dir", "shader", ".osl">>
OsoFile == <<"dir", "shader", ".oso">>
SearchFile == <<"shaders", "shader", ".oso">>
Files == {OslFile, OsoFile, SearchFile}

\* the managers of the sessions before any request: the .osl and the .oso are
\* there or not, with any outcome of reading and compiling them
InitLoadOf(mtimes, readables) ==
  /\ fs_mtime \in [Files -> mtimes]
  /\ fs_mtime[SearchFile] = 1
  /\ fs_readable \in [Files -> readables]
  /\ fs_readable[SearchFile]
  /\ fs_clock = 1
  /\ loaded_shaders = [m \in Sessions |-> {}]
  /\ load_log = <<>>

\* no file is of concern
\* osl_node begins its first loop over the parameters `declared`
InitOslNodeOf(declared) ==
  /\ node_pc = "count"
  /\ query = declared
  /\ param_index = 0
  /\ num_inputs = 0
  /\ node_inputs = <<>>
  /\ node_outputs = <<>>

\* no parameter_texture call is under way
NoRead == 0 - 1

\* no @svm name has been made
InitSvm ==
  /\ svm_read = [s \in 1..MaxSessions |-> NoRead]
  /\ svm_filenames = <<>>

\* the slots of an array one longer than users
StackSlotsBeyond == 0..SVM_STACK_SIZE

\* struct Stack: the slots of users[SVM_STACK_SIZE]
StackSlots == 0..(SVM_STACK_SIZE - 1)

\* Stack(): memset(users, 0, sizeof(users))
EmptyStack == [i \in StackSlots |-> 0]

\* the values compile_type gives stack space to
Values == 1..MaxValues

\* no stack_offset
SVM_STACK_INVALID == SVM_STACK_SIZE

\* the contexts SVMCompiler::compile is called for, in order: shader and type
SvmContexts ==
  <<<<1, SHADER_TYPE_SURFACE>>, <<1, SHADER_TYPE_VOLUME>>,
    <<2, SHADER_TYPE_SURFACE>>, <<2, SHADER_TYPE_VOLUME>>>>

\* no program yet for the context
NoProgram == [state |-> "none", nodes |-> 0]

\* SVMCompiler::compile is about to call compile_type for the first context
InitStack ==
  /\ svm_pc = "begin"
  /\ svm_context = 1
  /\ active_stack = EmptyStack
  /\ stack_offset = [v \in Values |-> SVM_STACK_INVALID]
  /\ stack_size = [v \in Values |-> 0]
  /\ stack_users = [v \in Values |-> 0]
  /\ max_stack_use = 0
  /\ compile_failed = FALSE
  /\ current_svm_nodes = 0
  /\ svm_nodes = [c \in 1..Len(SvmContexts) |-> NoProgram]
  /\ svm_failed = {}

InitExt == InitLoadOf({1}, {TRUE}) /\ InitOslNodeOf(<<>>) /\ InitSvm /\ InitStack

Init == InitGraph /\ InitShared /\ InitSceneOf(1, {DefaultGraph}) /\ InitExt

\* ShaderGraph::connect(from's output, the i-th input of to).  The Output node
\* is linked at its Surface and Displacement inputs; its Volume and Normal
\* inputs stay unlinked, the unlinked root of find_dependencies.
Connect(from, to, i) ==
  /\ pc = "graph"
  /\ GraphSize < MaxGraphSize
  /\ i \in 1..NumInputs(to)
  /\ ~SvmInternal(to, i)
  /\ to = OutputNode => InputName(to, i) \in {"Surface", "Displacement"}
  /\ link[to][i] = NULL
  /\ from # to
  /\ to \in Upstream({OutputNode}, {})
  /\ to \notin Upstream({from}, {})
  /\ link' = [link EXCEPT ![to][i] = from]
  /\ UNCHANGED <<special_type, texture, compile_vars, shared_vars, scene_vars, ext_vars>>

\* the node is a BumpNode: its inputs are Height and Normal
MakeBump(node) ==
  /\ pc = "graph"
  /\ GraphSize < MaxGraphSize
  /\ special_type[node] = SHADER_SPECIAL_TYPE_NONE
  /\ node \in Upstream({OutputNode}, {})
  /\ special_type' = [special_type EXCEPT ![node] = SHADER_SPECIAL_TYPE_BUMP]
  /\ UNCHANGED <<link, texture, compile_vars, shared_vars, scene_vars, ext_vars>>

(***************************************************************************)
(* OSLCompiler::compile_type and the loop of generate_nodes.               *)
(***************************************************************************)
\* current_type = type; ShaderGroupBegin; find_dependencies; generate_nodes
\* up to the first statement of its do loop
CompileType(type) ==
  /\ pc = "graph"
  /\ current_type' = type
  /\ dependencies' = FindDependencies(type, {}, OutputNode, RootInput(type))
  /\ done' = {}
  /\ nodes_done' = TRUE
  /\ cursor' = NULL
  /\ emitted' = <<>>
  /\ connections' = {}
  /\ scans' = 1
  /\ scan_emitted' = 0
  /\ parameters' = {}
  /\ pc' = "generate_nodes"
  /\ UNCHANGED <<graph_vars, texture_shared_unique_id, previous, shared_vars, scene_vars, ext_vars>>

\* string_printf("@svm%d", id)
SvmFilename(id) == <<"@svm", id>>

\* parameter_texture without the increment of texture_shared_unique_id
ParameterTextureSameId(node) ==
  IF texture[node]
  THEN /\ parameters' = parameters \cup {<<node, SvmFilename(texture_shared_unique_id)>>}
       /\ UNCHANGED texture_shared_unique_id
  ELSE UNCHANGED <<texture_shared_unique_id, parameters>>

\* OSLCompiler::parameter_texture(name, svm_slot), which the compile of a node
\* that binds a texture calls: the parameter is set to a name made from
\* texture_shared_unique_id++
ParameterTexture(node) ==
  IF texture[node]
  THEN /\ parameters' = parameters \cup {<<node, SvmFilename(texture_shared_unique_id)>>}
       /\ texture_shared_unique_id' = texture_shared_unique_id + 1
  ELSE UNCHANGED <<texture_shared_unique_id, parameters>>

\* the body of the foreach without the test done.find(node) == done.end()
GenerateVisitNoDoneTest ==
  /\ pc = "generate_nodes"
  /\ NextNode(dependencies, cursor) # NULL
  /\ LET node == NextNode(dependencies, cursor) IN
       /\ cursor' = node
       /\ IF InputsDone(current_type, node, done)
          THEN /\ emitted' = Append(emitted, node)
               /\ connections' = connections \cup AddConnections(current_type, node)
               /\ done' = done \cup {node}
               /\ scan_emitted' = scan_emitted + 1
               /\ ParameterTexture(node)
               /\ UNCHANGED nodes_done
          ELSE /\ nodes_done' = FALSE
               /\ UNCHANGED <<emitted, connections, done, scan_emitted,
                              texture_shared_unique_id, parameters>>
  /\ UNCHANGED <<graph_vars, pc, current_type, dependencies, scans, previous, shared_vars, scene_vars, ext_vars>>

\* one pass of the body of foreach (ShaderNode *node, nodes)
GenerateVisit ==
  /\ pc = "generate_nodes"
  /\ NextNode(dependencies, cursor) # NULL
  /\ LET node == NextNode(dependencies, cursor) IN
       /\ cursor' = node
       /\ IF node \notin done
          THEN IF InputsDone(current_type, node, done)
               THEN /\ emitted' = Append(emitted, node)
                    /\ connections' = connections \cup AddConnections(current_type, node)
                    /\ done' = done \cup {node}
                    /\ scan_emitted' = scan_emitted + 1
                    /\ ParameterTexture(node)
                    /\ UNCHANGED nodes_done
               ELSE /\ nodes_done' = FALSE
                    /\ UNCHANGED <<emitted, connections, done, scan_emitted,
                                   texture_shared_unique_id, parameters>>
          ELSE UNCHANGED <<emitted, connections, done, scan_emitted, nodes_done,
                           texture_shared_unique_id, parameters>>
  /\ UNCHANGED <<graph_vars, pc, current_type, dependencies, scans, previous, shared_vars, scene_vars, ext_vars>>

\* a loop that stops as soon as one scan has emitted a node
GenerateScanEndOnProgress ==
  /\ pc = "generate_nodes"
  /\ NextNode(dependencies, cursor) = NULL
  /\ IF ~nodes_done /\ scan_emitted = 0
     THEN /\ nodes_done' = TRUE
          /\ cursor' = NULL
          /\ scans' = scans + 1
          /\ scan_emitted' = 0
          /\ UNCHANGED pc
     ELSE /\ pc' = "output"
          /\ UNCHANGED <<nodes_done, cursor, scans, scan_emitted>>
  /\ UNCHANGED <<graph_vars, current_type, dependencies, done, emitted, connections,
                 texture_shared_unique_id, parameters, previous, shared_vars, scene_vars, ext_vars>>

\* the end of the foreach: while (!nodes_done)
GenerateScanEnd ==
  /\ pc = "generate_nodes"
  /\ NextNode(dependencies, cursor) = NULL
  /\ IF ~nodes_done
     THEN /\ nodes_done' = TRUE
          /\ cursor' = NULL
          /\ scans' = scans + 1
          /\ scan_emitted' = 0
          /\ UNCHANGED pc
     ELSE /\ pc' = "output"
          /\ UNCHANGED <<nodes_done, cursor, scans, scan_emitted>>
  /\ UNCHANGED <<graph_vars, current_type, dependencies, done, emitted, connections,
                 texture_shared_unique_id, parameters, previous, shared_vars, scene_vars, ext_vars>>

\* output->compile(*this); ss->ShaderGroupEnd()
OutputCompile ==
  /\ pc = "output"
  /\ emitted' = Append(emitted, OutputNode)
  /\ connections' = connections \cup AddConnections(current_type, OutputNode)
  /\ pc' = "end"
  /\ UNCHANGED <<graph_vars, current_type, dependencies, done, nodes_done, cursor, scans,
                 scan_emitted, texture_shared_unique_id, parameters, previous, shared_vars, scene_vars, ext_vars>>

Next ==
  \/ \E from \in Nodes, to \in AllNodes, i \in 1..4 : Connect(from, to, i)
  \/ \E node \in Nodes : MakeBump(node)
  \/ \E type \in ShaderType : CompileType(type)
  \/ GenerateVisit
  \/ GenerateScanEnd
  \/ OutputCompile

Spec == Init /\ [][Next]_vars

\* the thread that called compile_type runs on: a step of generate_nodes or
\* the compilation of the Output node that can be taken is taken
CompileProgress == GenerateVisit \/ GenerateScanEnd \/ OutputCompile

SpecFair == Init /\ [][Next]_vars /\ WF_vars(CompileProgress)

(***************************************************************************)
(* The same graph compiled twice in one context: OSLCompiler::compile      *)
(* runs again on a shader whose graph did not change.                      *)
(***************************************************************************)
\* the program descriptor of a compile_type call: the layers in order, the
\* connections and the texture parameters
Output == [layers |-> emitted, connections |-> connections, parameters |-> parameters]

\* a link of a graph that is compiled twice
ConnectTwice(from, to, i) ==
  /\ pc = "graph"
  /\ GraphSize < MaxTextureGraphSize
  /\ Connect(from, to, i)

\* the node is one whose compile binds a texture by its slot: it calls
\* parameter_texture(name, svm_slot) or parameter_texture_ies(name, svm_slot)
MakeTexture(node) ==
  /\ pc = "graph"
  /\ GraphSize < MaxTextureGraphSize
  /\ special_type[node] = SHADER_SPECIAL_TYPE_NONE
  /\ ~texture[node]
  /\ node \in Upstream({OutputNode}, {})
  /\ texture' = [texture EXCEPT ![node] = TRUE]
  /\ UNCHANGED <<special_type, link, compile_vars, shared_vars, scene_vars, ext_vars>>

\* compile_type called again on the unchanged graph, in the same context
CompileAgain ==
  /\ pc = "end"
  /\ Len(previous) = 0
  /\ previous' = Append(previous, Output)
  /\ dependencies' = FindDependencies(current_type, {}, OutputNode, RootInput(current_type))
  /\ done' = {}
  /\ nodes_done' = TRUE
  /\ cursor' = NULL
  /\ emitted' = <<>>
  /\ connections' = {}
  /\ scans' = 1
  /\ scan_emitted' = 0
  /\ parameters' = {}
  /\ pc' = "generate_nodes"
  /\ UNCHANGED <<graph_vars, current_type, texture_shared_unique_id, shared_vars, scene_vars, ext_vars>>

NextTwice ==
  \/ \E from \in Nodes, to \in AllNodes, i \in 1..4 : ConnectTwice(from, to, i)
  \/ \E node \in Nodes : MakeTexture(node)
  \/ \E type \in ShaderType : CompileType(type)
  \/ GenerateVisit
  \/ GenerateScanEnd
  \/ OutputCompile
  \/ CompileAgain

SpecTwice == Init /\ [][NextTwice]_vars

(***************************************************************************)
(* The render sessions of the process.  Every session runs the operations  *)
(* of its own OSLShaderManager one after the other on its own thread; the  *)
(* threads of different sessions interleave.  A thread_scoped_lock is two  *)
(* steps: the lock is taken, and the guarded statements run and the lock   *)
(* is released at the end of the scope.                                    *)
(***************************************************************************)
group_vars == <<ss_group, ss_group_layers>>
ts_static_vars == <<ts_shared, ts_shared_users, ts_created>>
ss_static_vars == <<ss_shared, services_shared, ss_shared_users, ss_created, ss_shared_ts>>
other_vars == <<graph_vars, compile_vars, scene_vars, ext_vars>>

Goto(s, position) == mgr_pc' = [mgr_pc EXCEPT ![s] = position]

\* OSLShaderManager::OSLShaderManager(), up to the lock of texture_system_init
Construct(s) ==
  /\ mgr_pc[s] = "none"
  /\ ts_created < MaxInstances
  /\ ss_created < MaxInstances
  /\ Goto(s, "ctor_texture_system_init")
  /\ UNCHANGED <<ts, ss, services, shaders_left, ts_static_vars, ss_static_vars,
                 ts_shared_mutex, ss_shared_mutex, ss_mutex, group_vars, other_vars>>

\* a destructor that goes to texture_system_free without shading_system_free
DestroyTextureFirst(s) ==
  /\ mgr_pc[s] = "idle"
  /\ Goto(s, "dtor_texture_system_free")
  /\ UNCHANGED <<ts, ss, services, shaders_left, ts_static_vars, ss_static_vars,
                 ts_shared_mutex, ss_shared_mutex, ss_mutex, group_vars, other_vars>>

\* OSLShaderManager::~OSLShaderManager(), up to the lock of shading_system_free
Destroy(s) ==
  /\ mgr_pc[s] = "idle"
  /\ Goto(s, "dtor_shading_system_free")
  /\ UNCHANGED <<ts, ss, services, shaders_left, ts_static_vars, ss_static_vars,
                 ts_shared_mutex, ss_shared_mutex, ss_mutex, group_vars, other_vars>>

\* OSLShaderManager::reset, up to the lock of shading_system_free
Reset(s) ==
  /\ mgr_pc[s] = "idle"
  /\ ss_created < MaxInstances
  /\ Goto(s, "reset_shading_system_free")
  /\ UNCHANGED <<ts, ss, services, shaders_left, ts_static_vars, ss_static_vars,
                 ts_shared_mutex, ss_shared_mutex, ss_mutex, group_vars, other_vars>>

\* thread_scoped_lock lock(ts_shared_mutex) of texture_system_init and texture_system_free
LockTsSharedMutex(s) ==
  /\ mgr_pc[s] \in {"ctor_texture_system_init", "dtor_texture_system_free"}
  /\ ts_shared_mutex = NULL
  /\ ts_shared_mutex' = s
  /\ Goto(s, IF mgr_pc[s] = "ctor_texture_system_init"
             THEN "ctor_texture_system_init_locked"
             ELSE "dtor_texture_system_free_locked")
  /\ UNCHANGED <<ts, ss, services, shaders_left, ts_static_vars, ss_static_vars,
                 ss_shared_mutex, ss_mutex, group_vars, other_vars>>

\* OSLShaderManager::texture_system_init under the lock
TextureSystemInit(s) ==
  /\ mgr_pc[s] = "ctor_texture_system_init_locked"
  /\ IF ts_shared_users = 0
     THEN /\ ts_shared' = ts_created + 1
          /\ ts_created' = ts_created + 1
     ELSE UNCHANGED <<ts_shared, ts_created>>
  /\ ts' = [ts EXCEPT ![s] = ts_shared']
  /\ ts_shared_users' = ts_shared_users + 1
  /\ ts_shared_mutex' = NULL
  /\ Goto(s, "ctor_shading_system_init")
  /\ UNCHANGED <<ss, services, shaders_left, ss_static_vars, ss_shared_mutex, ss_mutex,
                 group_vars, other_vars>>

\* OSLShaderManager::texture_system_free under the lock
TextureSystemFree(s) ==
  /\ mgr_pc[s] = "dtor_texture_system_free_locked"
  /\ ts_shared_users' = ts_shared_users - 1
  /\ IF ts_shared_users' = 0
     THEN ts_shared' = NULL
     ELSE UNCHANGED ts_shared
  /\ ts' = [ts EXCEPT ![s] = NULL]
  /\ ts_shared_mutex' = NULL
  /\ Goto(s, "none")
  /\ UNCHANGED <<ss, services, shaders_left, ts_created, ss_static_vars, ss_shared_mutex,
                 ss_mutex, group_vars, other_vars>>

\* thread_scoped_lock lock(ss_shared_mutex) of shading_system_init,
\* shading_system_free and of the block around optimize_all_groups
LockSsSharedMutex(s) ==
  /\ \/ mgr_pc[s] \in {"ctor_shading_system_init", "reset_shading_system_init",
                       "dtor_shading_system_free", "reset_shading_system_free"}
     \/ mgr_pc[s] = "host_update_shaders" /\ shaders_left[s] = 0
  /\ ss_shared_mutex = NULL
  /\ ss_shared_mutex' = s
  /\ Goto(s, IF mgr_pc[s] = "host_update_shaders" THEN "optimize_all_groups"
             ELSE IF mgr_pc[s] = "ctor_shading_system_init" THEN "ctor_shading_system_init_locked"
             ELSE IF mgr_pc[s] = "reset_shading_system_init" THEN "reset_shading_system_init_locked"
             ELSE IF mgr_pc[s] = "dtor_shading_system_free" THEN "dtor_shading_system_free_locked"
             ELSE "reset_shading_system_free_locked")
  /\ UNCHANGED <<ts, ss, services, shaders_left, ts_static_vars, ss_static_vars,
                 ts_shared_mutex, ss_mutex, group_vars, other_vars>>

\* shading_system_free that destroys the shading system whatever the count
ShadingSystemFreeAlways(s) ==
  /\ mgr_pc[s] \in {"dtor_shading_system_free_locked", "reset_shading_system_free_locked"}
  /\ ss_shared_users' = ss_shared_users - 1
  /\ ss_shared' = NULL
  /\ services_shared' = NULL
  /\ ss_shared_ts' = NULL
  /\ ss' = [ss EXCEPT ![s] = NULL]
  /\ services' = [services EXCEPT ![s] = NULL]
  /\ ss_shared_mutex' = NULL
  /\ Goto(s, IF mgr_pc[s] = "dtor_shading_system_free_locked"
             THEN "dtor_texture_system_free"
             ELSE "reset_shading_system_init")
  /\ UNCHANGED <<ts, shaders_left, ts_static_vars, ss_created, ts_shared_mutex, ss_mutex,
                 group_vars, other_vars>>

\* OSLShaderManager::shading_system_init under the lock
ShadingSystemInit(s) ==
  /\ mgr_pc[s] \in {"ctor_shading_system_init_locked", "reset_shading_system_init_locked"}
  /\ IF ss_shared_users = 0
     THEN /\ services_shared' = ss_created + 1
          /\ ss_shared' = ss_created + 1
          /\ ss_created' = ss_created + 1
          /\ ss_shared_ts' = ts_shared
     ELSE UNCHANGED <<services_shared, ss_shared, ss_created, ss_shared_ts>>
  /\ ss' = [ss EXCEPT ![s] = ss_shared']
  /\ services' = [services EXCEPT ![s] = services_shared']
  /\ loaded_shaders' = IF ss_shared_users = 0
                        THEN [loaded_shaders EXCEPT ![s] = {}]
                        ELSE loaded_shaders
  /\ ss_shared_users' = ss_shared_users + 1
  /\ ss_shared_mutex' = NULL
  /\ Goto(s, "idle")
  /\ UNCHANGED <<ts, shaders_left, ts_static_vars, ts_shared_mutex, ss_mutex, group_vars,
                 graph_vars, compile_vars, scene_vars, ext_rest_vars>>

\* OSLShaderManager::shading_system_free under the lock
ShadingSystemFree(s) ==
  /\ mgr_pc[s] \in {"dtor_shading_system_free_locked", "reset_shading_system_free_locked"}
  /\ ss_shared_users' = ss_shared_users - 1
  /\ IF ss_shared_users' = 0
     THEN /\ ss_shared' = NULL
          /\ services_shared' = NULL
          /\ ss_shared_ts' = NULL
     ELSE UNCHANGED <<ss_shared, services_shared, ss_shared_ts>>
  /\ ss' = [ss EXCEPT ![s] = NULL]
  /\ services' = [services EXCEPT ![s] = NULL]
  /\ ss_shared_mutex' = NULL
  /\ Goto(s, IF mgr_pc[s] = "dtor_shading_system_free_locked"
             THEN "dtor_texture_system_free"
             ELSE "reset_shading_system_init")
  /\ UNCHANGED <<ts, shaders_left, ts_static_vars, ss_created, ts_shared_mutex, ss_mutex,
                 group_vars, other_vars>>

\* OSLShaderManager::host_update_specific, up to the loop over scene->shaders
HostUpdate(s, nshaders) ==
  /\ mgr_pc[s] = "idle"
  /\ shaders_left' = [shaders_left EXCEPT ![s] = nshaders]
  /\ Goto(s, "host_update_shaders")
  /\ UNCHANGED <<ts, ss, services, ts_static_vars, ss_static_vars, ts_shared_mutex,
                 ss_shared_mutex, ss_mutex, group_vars, other_vars>>

\* the head of the loop: if (progress.get_cancel()) return
HostUpdateCancelTest(s, cancel) ==
  /\ mgr_pc[s] = "host_update_shaders"
  /\ shaders_left[s] > 0
  /\ IF cancel
     THEN /\ shaders_left' = [shaders_left EXCEPT ![s] = 0]
          /\ Goto(s, "idle")
     ELSE /\ Goto(s, "host_update_lock")
          /\ UNCHANGED shaders_left
  /\ UNCHANGED <<ts, ss, services, ts_static_vars, ss_static_vars, ts_shared_mutex,
                 ss_shared_mutex, ss_mutex, group_vars, other_vars>>

\* the lock of ss_mutex taken without waiting for it
LockSsMutexNoWait(s) ==
  /\ mgr_pc[s] = "host_update_lock"
  /\ ss_mutex' = s
  /\ Goto(s, "compile")
  /\ UNCHANGED <<ts, ss, services, shaders_left, ts_static_vars, ss_static_vars,
                 ts_shared_mutex, ss_shared_mutex, group_vars, other_vars>>

\* thread_scoped_lock lock(ss_mutex); OSLCompiler compiler(...); compiler.compile(shader)
LockSsMutex(s) ==
  /\ mgr_pc[s] = "host_update_lock"
  /\ ss_mutex = NULL
  /\ ss_mutex' = s
  /\ Goto(s, "compile")
  /\ UNCHANGED <<ts, ss, services, shaders_left, ts_static_vars, ss_static_vars,
                 ts_shared_mutex, ss_shared_mutex, group_vars, other_vars>>

\* OSLCompiler::compile_type: ss->ShaderGroupBegin
ShaderGroupBegin(s) ==
  /\ mgr_pc[s] = "compile"
  /\ ss_group' = s
  /\ ss_group_layers' = 0
  /\ Goto(s, "compile_type")
  /\ UNCHANGED <<ts, ss, services, shaders_left, ts_static_vars, ss_static_vars,
                 ts_shared_mutex, ss_shared_mutex, ss_mutex, other_vars>>

\* OSLCompiler::add: ss->Parameter, ss->Shader and ss->ConnectShaders add a
\* layer to the group under construction
ShaderLayer(s) ==
  /\ mgr_pc[s] = "compile_type"
  /\ ss_group_layers < MaxLayers
  /\ ss_group_layers' = ss_group_layers + 1
  /\ UNCHANGED <<mgr_pc, ts, ss, services, shaders_left, ts_static_vars, ss_static_vars,
                 ts_shared_mutex, ss_shared_mutex, ss_mutex, ss_group, other_vars>>

\* OSLCompiler::compile_type: ss->ShaderGroupEnd
ShaderGroupEnd(s) ==
  /\ mgr_pc[s] = "compile_type"
  /\ ss_group' = NULL
  /\ ss_group_layers' = 0
  /\ Goto(s, "compile")
  /\ UNCHANGED <<ts, ss, services, shaders_left, ts_static_vars, ss_static_vars,
                 ts_shared_mutex, ss_shared_mutex, ss_mutex, other_vars>>

\* a body of the loop whose lock of ss_mutex outlives it
CompileReturnKeepsLock(s) ==
  /\ mgr_pc[s] = "compile"
  /\ shaders_left' = [shaders_left EXCEPT ![s] = shaders_left[s] - 1]
  /\ Goto(s, "host_update_shaders")
  /\ UNCHANGED <<ts, ss, services, ts_static_vars, ss_static_vars, ts_shared_mutex,
                 ss_shared_mutex, ss_mutex, group_vars, other_vars>>

\* compiler.compile returns and the scoped lock of ss_mutex ends with the
\* body of the loop
CompileReturn(s) ==
  /\ mgr_pc[s] = "compile"
  /\ ss_mutex' = NULL
  /\ shaders_left' = [shaders_left EXCEPT ![s] = shaders_left[s] - 1]
  /\ Goto(s, "host_update_shaders")
  /\ UNCHANGED <<ts, ss, services, ts_static_vars, ss_static_vars, ts_shared_mutex,
                 ss_shared_mutex, group_vars, other_vars>>

\* ss->optimize_all_groups() returns and the scoped lock of ss_shared_mutex ends
OptimizeAllGroupsReturn(s) ==
  /\ mgr_pc[s] = "optimize_all_groups"
  /\ ss_shared_mutex' = NULL
  /\ Goto(s, "idle")
  /\ UNCHANGED <<ts, ss, services, shaders_left, ts_static_vars, ss_static_vars,
                 ts_shared_mutex, ss_mutex, group_vars, other_vars>>

\* OSLShaderManager::osl_node: shader_load_bytecode calls
\* ss->LoadMemoryCompiledShader, no mutex held
OslNodeLoad(s) ==
  /\ mgr_pc[s] = "idle"
  /\ Goto(s, "LoadMemoryCompiledShader")
  /\ UNCHANGED <<ts, ss, services, shaders_left, ts_static_vars, ss_static_vars,
                 ts_shared_mutex, ss_shared_mutex, ss_mutex, group_vars, other_vars>>

\* ss->LoadMemoryCompiledShader returns
OslNodeReturn(s) ==
  /\ mgr_pc[s] = "LoadMemoryCompiledShader"
  /\ Goto(s, "idle")
  /\ UNCHANGED <<ts, ss, services, shaders_left, ts_static_vars, ss_static_vars,
                 ts_shared_mutex, ss_shared_mutex, ss_mutex, group_vars, other_vars>>

NextShared ==
  \/ \E s \in Sessions : Construct(s)
  \/ \E s \in Sessions : Destroy(s)
  \/ \E s \in Sessions : Reset(s)
  \/ \E s \in Sessions : LockTsSharedMutex(s)
  \/ \E s \in Sessions : TextureSystemInit(s)
  \/ \E s \in Sessions : TextureSystemFree(s)
  \/ \E s \in Sessions : LockSsSharedMutex(s)
  \/ \E s \in Sessions : ShadingSystemInit(s)
  \/ \E s \in Sessions : ShadingSystemFree(s)
  \/ \E s \in Sessions, nshaders \in 1..MaxShaders : HostUpdate(s, nshaders)
  \/ \E s \in Sessions, cancel \in BOOLEAN : HostUpdateCancelTest(s, cancel)
  \/ \E s \in Sessions : LockSsMutex(s)
  \/ \E s \in Sessions : ShaderGroupBegin(s)
  \/ \E s \in Sessions : ShaderLayer(s)
  \/ \E s \in Sessions : ShaderGroupEnd(s)
  \/ \E s \in Sessions : CompileReturn(s)
  \/ \E s \in Sessions : OptimizeAllGroupsReturn(s)
  \/ \E s \in Sessions : OslNodeLoad(s)
  \/ \E s \in Sessions : OslNodeReturn(s)

SpecShared == Init /\ [][NextShared]_vars

\* the statements of a thread that wait for nothing: once it can run one of
\* them the thread runs it
RunsOn(s) ==
  \/ TextureSystemInit(s)
  \/ TextureSystemFree(s)
  \/ ShadingSystemInit(s)
  \/ ShadingSystemFree(s)
  \/ \E cancel \in BOOLEAN : HostUpdateCancelTest(s, cancel)
  \/ ShaderGroupEnd(s)
  \/ OptimizeAllGroupsReturn(s)
  \/ OslNodeReturn(s)

\* The threads keep running, OSLCompiler::compile makes a bounded number of
\* compile_type calls and returns, and the mutexes are fair: a thread that
\* waits for a mutex released again and again gets it.
FairLocking ==
  \A s \in Sessions :
    /\ WF_vars(RunsOn(s))
    /\ SF_vars(CompileReturn(s))
    /\ SF_vars(LockTsSharedMutex(s))
    /\ SF_vars(LockSsSharedMutex(s))
    /\ SF_vars(LockSsMutex(s))

SpecSharedFair == Init /\ [][NextShared]_vars /\ FairLocking

(***************************************************************************)
(* One scene and its OSLShaderManager: host_update_specific with           *)
(* OSLCompiler::compile on every shader, device_update_specific and        *)
(* device_free, run by the scene's thread one after the other while        *)
(* another thread may ask for cancellation.  compile_type is reduced to    *)
(* the group it builds and the reports of the nodes it emits; the          *)
(* dependency set itself is the matter of Spec.                            *)
(***************************************************************************)
no_scene_vars == <<graph_vars, compile_vars, shared_vars, ext_vars>>

\* Shader::id of the i-th shader of scene->shaders, as get_shader_id returns
\* it under SHADER_MASK
GetShaderId(i) == i - 1

\* a device_free that leaves the entries of the table in place
ClearedTableKept(table) == table

\* std::vector::clear() of device_free
ClearedTable(table) == <<>>

\* the push_back of one handle per shader of scene->shaders, in order
PushedTable(table, ref) == table \o [i \in 1..scene_shaders |-> shaders[i][ref]]

\* ss->ShaderGroupBegin in compile_type(shader, graph, type)
CompileTypeBegin(type) ==
  /\ group' = <<shader_index, shaders[shader_index].version, type>>
  /\ nodes_emitted' = 0
  /\ scene_pc' = "compile_type"

\* the shader's graph is replaced or edited: the shader is tagged modified and
\* the manager tagged for an update
SetGraph(i, graph) ==
  /\ scene_pc = "idle"
  /\ i \in 1..scene_shaders
  /\ shaders[i].version < MaxGraphVersions
  /\ shaders' = [shaders EXCEPT ![i].graph = graph, ![i].version = @ + 1,
                                ![i].is_modified = TRUE]
  /\ need_update' = TRUE
  /\ UNCHANGED <<scene_pc, scene_shaders, background, shader_index, progress_cancel, has_bump,
                 group, nodes_emitted, og, sealed, reported, skipped, no_scene_vars>>

\* another thread: progress.set_cancel
RequestCancel ==
  /\ ~progress_cancel
  /\ progress_cancel' = TRUE
  /\ UNCHANGED <<scene_pc, scene_shaders, shaders, background, shader_index, need_update,
                 has_bump, group, nodes_emitted, og, sealed, reported, skipped, no_scene_vars>>

\* the progress is reset before the scene is updated again
ResetCancel ==
  /\ progress_cancel
  /\ scene_pc = "idle"
  /\ progress_cancel' = FALSE
  /\ UNCHANGED <<scene_pc, scene_shaders, shaders, background, shader_index, need_update,
                 has_bump, group, nodes_emitted, og, sealed, reported, skipped, no_scene_vars>>

\* OSLShaderManager::host_update_specific up to its loop
\* host_update_specific that goes on without the test of need_update()
HostUpdatePassAlways ==
  /\ scene_pc = "idle"
  /\ shader_index' = 1
  /\ skipped' = {}
  /\ scene_pc' = "host_update"
  /\ UNCHANGED <<scene_shaders, shaders, background, progress_cancel, need_update, has_bump,
                 group, nodes_emitted, og, sealed, reported, no_scene_vars>>

HostUpdatePass ==
  /\ scene_pc = "idle"
  /\ IF need_update
     THEN /\ shader_index' = 1
          /\ skipped' = {}
          /\ scene_pc' = "host_update"
     ELSE UNCHANGED <<shader_index, skipped, scene_pc>>
  /\ UNCHANGED <<scene_shaders, shaders, background, progress_cancel, need_update, has_bump,
                 group, nodes_emitted, og, sealed, reported, no_scene_vars>>

\* the head of the loop over scene->shaders: the test of progress.get_cancel(),
\* then the lock and the call of compiler.compile(shader)
HostUpdateShader ==
  /\ scene_pc = "host_update"
  /\ shader_index <= scene_shaders
  /\ IF progress_cancel
     THEN /\ scene_pc' = "idle"
          /\ skipped' = {j \in shader_index..scene_shaders : shaders[j].is_modified}
     ELSE /\ scene_pc' = "compile"
          /\ UNCHANGED skipped
  /\ UNCHANGED <<scene_shaders, shaders, background, shader_index, progress_cancel,
                 need_update, has_bump, group, nodes_emitted, og, sealed, reported,
                 no_scene_vars>>

\* a loop body that marks the shader it compiled as not modified
HostUpdateNextClearModified ==
  /\ scene_pc = "compile_return"
  /\ shader_index' = shader_index + 1
  /\ scene_pc' = "host_update"
  /\ shaders' = [shaders EXCEPT ![shader_index].is_modified = FALSE]
  /\ UNCHANGED <<scene_shaders, background, progress_cancel, need_update, has_bump,
                 group, nodes_emitted, og, sealed, reported, skipped, no_scene_vars>>

\* compile returned: the end of the body of the loop
HostUpdateNext ==
  /\ scene_pc = "compile_return"
  /\ shader_index' = shader_index + 1
  /\ scene_pc' = "host_update"
  /\ UNCHANGED <<scene_shaders, shaders, background, progress_cancel, need_update, has_bump,
                 group, nodes_emitted, og, sealed, reported, skipped, no_scene_vars>>

\* after the loop: the builtin textures and ss->optimize_all_groups()
HostUpdateEnd ==
  /\ scene_pc = "host_update"
  /\ shader_index > scene_shaders
  /\ scene_pc' = "idle"
  /\ UNCHANGED <<scene_shaders, shaders, background, shader_index, progress_cancel,
                 need_update, has_bump, group, nodes_emitted, og, sealed, reported, skipped,
                 no_scene_vars>>

\* has_bump asked for whenever the displacement is not true displacement
HasBumpNoSurface(gr) ==
  gr.displacement_method # DISPLACE_TRUE /\ gr.displacement

\* bool has_bump of OSLCompiler::compile
HasBump(gr) ==
  gr.displacement_method # DISPLACE_TRUE /\ gr.surface /\ gr.displacement

\* compile that does not look at is_modified
CompileAlways ==
  /\ scene_pc = "compile"
  /\ LET gr == shaders[shader_index].graph IN
       /\ has_bump' = HasBump(gr)
       /\ shaders' = [shaders EXCEPT ![shader_index].has_surface = FALSE,
                                     ![shader_index].has_surface_emission = FALSE,
                                     ![shader_index].has_surface_transparent = FALSE,
                                     ![shader_index].has_bump = has_bump',
                                     ![shader_index].has_volume = FALSE,
                                     ![shader_index].has_displacement = FALSE]
       /\ reported' = {}
       /\ scene_pc' = "compile_surface"
  /\ UNCHANGED <<scene_shaders, background, shader_index, progress_cancel, need_update, group,
                 nodes_emitted, og, sealed, skipped, no_scene_vars>>

\* OSLCompiler::compile(shader) up to "generate surface shader": the test of
\* is_modified, has_bump, and the reset of the shader's flags
Compile ==
  /\ scene_pc = "compile"
  /\ IF shaders[shader_index].is_modified
     THEN LET gr == shaders[shader_index].graph IN
       /\ has_bump' = HasBump(gr)
       /\ shaders' = [shaders EXCEPT ![shader_index].has_surface = FALSE,
                                     ![shader_index].has_surface_emission = FALSE,
                                     ![shader_index].has_surface_transparent = FALSE,
                                     ![shader_index].has_bump = has_bump',
                                     ![shader_index].has_volume = FALSE,
                                     ![shader_index].has_displacement = FALSE]
       /\ reported' = {}
       /\ scene_pc' = "compile_surface"
     ELSE /\ scene_pc' = "compile_return"
          /\ UNCHANGED <<has_bump, shaders, reported>>
  /\ UNCHANGED <<scene_shaders, background, shader_index, progress_cancel, need_update, group,
                 nodes_emitted, og, sealed, skipped, no_scene_vars>>

\* "generate surface shader": compiled when the shader is referenced and the
\* Surface input of the output node is linked, else both handles are emptied
CompileSurface ==
  /\ scene_pc = "compile_surface"
  /\ IF shaders[shader_index].graph.referenced /\ shaders[shader_index].graph.surface
     THEN /\ CompileTypeBegin(SHADER_TYPE_SURFACE)
          /\ UNCHANGED shaders
     ELSE /\ shaders' = [shaders EXCEPT ![shader_index].osl_surface_ref = EmptyRef,
                                        ![shader_index].osl_surface_bump_ref = EmptyRef]
          /\ scene_pc' = "compile_volume"
          /\ UNCHANGED <<group, nodes_emitted>>
  /\ UNCHANGED <<scene_shaders, background, shader_index, progress_cancel, need_update,
                 has_bump, og, sealed, reported, skipped, no_scene_vars>>

\* the flags set whatever is compiled
NodeFlagsAnyType(type, sh, reports) ==
  [sh EXCEPT !.has_surface_emission = @ \/ "emission" \in reports,
             !.has_surface_transparent = @ \/ "transparent" \in reports,
             !.has_bump = @ \/ "bump" \in reports]

\* the flags OSLCompiler::add and generate_nodes set on the current shader:
\* only while a surface is compiled
NodeFlags(type, sh, reports) ==
  IF type = SHADER_TYPE_SURFACE
  THEN [sh EXCEPT !.has_surface_emission = @ \/ "emission" \in reports,
                  !.has_surface_transparent = @ \/ "transparent" \in reports,
                  !.has_bump = @ \/ "bump" \in reports]
  ELSE sh

\* generate_nodes that tests progress.get_cancel() before each node and gives
\* the compile up
EmitNodeCancelTest(reports) ==
  /\ scene_pc = "compile_type"
  /\ nodes_emitted < MaxCompileNodes
  /\ IF progress_cancel
     THEN /\ scene_pc' = "idle"
          /\ UNCHANGED <<nodes_emitted, shaders, reported>>
     ELSE /\ nodes_emitted' = nodes_emitted + 1
          /\ shaders' = [shaders EXCEPT ![shader_index] = NodeFlags(group[3], @, reports)]
          /\ reported' = IF group[3] = SHADER_TYPE_SURFACE
                         THEN reported \cup reports ELSE reported
          /\ UNCHANGED scene_pc
  /\ UNCHANGED <<scene_shaders, background, shader_index, progress_cancel,
                 need_update, has_bump, group, og, sealed, skipped, no_scene_vars>>

\* generate_nodes emits one node, which reports what it has
EmitNode(reports) ==
  /\ scene_pc = "compile_type"
  /\ nodes_emitted < MaxCompileNodes
  /\ nodes_emitted' = nodes_emitted + 1
  /\ shaders' = [shaders EXCEPT ![shader_index] = NodeFlags(group[3], @, reports)]
  /\ reported' = IF group[3] = SHADER_TYPE_SURFACE THEN reported \cup reports ELSE reported
  /\ UNCHANGED <<scene_pc, scene_shaders, background, shader_index, progress_cancel,
                 need_update, has_bump, group, og, sealed, skipped, no_scene_vars>>

\* the return of compile_type into compile: the handle is stored, and the
\* next program of the shader is turned to
CompileTypeReturn ==
  /\ scene_pc = "compile_type"
  /\ CASE group[3] = SHADER_TYPE_SURFACE /\ has_bump ->
            /\ shaders' = [shaders EXCEPT ![shader_index].osl_surface_ref = group]
            /\ CompileTypeBegin(SHADER_TYPE_BUMP)
       [] group[3] = SHADER_TYPE_SURFACE /\ ~has_bump ->
            /\ shaders' = [shaders EXCEPT ![shader_index].osl_surface_ref = group,
                                          ![shader_index].osl_surface_bump_ref = EmptyRef,
                                          ![shader_index].has_surface = TRUE]
            /\ scene_pc' = "compile_volume"
            /\ UNCHANGED <<group, nodes_emitted>>
       [] group[3] = SHADER_TYPE_BUMP ->
            /\ shaders' = [shaders EXCEPT ![shader_index].osl_surface_bump_ref = group,
                                          ![shader_index].has_surface = TRUE]
            /\ scene_pc' = "compile_volume"
            /\ UNCHANGED <<group, nodes_emitted>>
       [] group[3] = SHADER_TYPE_VOLUME ->
            /\ shaders' = [shaders EXCEPT ![shader_index].osl_volume_ref = group,
                                          ![shader_index].has_volume = TRUE]
            /\ scene_pc' = "compile_displacement"
            /\ UNCHANGED <<group, nodes_emitted>>
       [] group[3] = SHADER_TYPE_DISPLACEMENT ->
            /\ shaders' = [shaders EXCEPT ![shader_index].osl_displacement_ref = group,
                                          ![shader_index].has_displacement = TRUE]
            /\ scene_pc' = "compile_return"
            /\ UNCHANGED <<group, nodes_emitted>>
  /\ UNCHANGED <<scene_shaders, background, shader_index, progress_cancel, need_update,
                 has_bump, og, reported, skipped, no_scene_vars>>

\* compile_type that returns the group without ss->ShaderGroupEnd()
CompileTypeEndUnsealed ==
  /\ CompileTypeReturn
  /\ UNCHANGED sealed

\* ss->ShaderGroupEnd closes the group, and compile_type returns it
CompileTypeEnd ==
  /\ sealed' = sealed \cup {group}
  /\ CompileTypeReturn

\* the volume program compiled whether or not the shader is referenced
CompileVolumeUnreferenced ==
  /\ scene_pc = "compile_volume"
  /\ IF shaders[shader_index].graph.volume
     THEN /\ CompileTypeBegin(SHADER_TYPE_VOLUME)
          /\ UNCHANGED shaders
     ELSE /\ shaders' = [shaders EXCEPT ![shader_index].osl_volume_ref = EmptyRef]
          /\ scene_pc' = "compile_displacement"
          /\ UNCHANGED <<group, nodes_emitted>>
  /\ UNCHANGED <<scene_shaders, background, shader_index, progress_cancel, need_update,
                 has_bump, og, sealed, reported, skipped, no_scene_vars>>

\* "generate volume shader"
CompileVolume ==
  /\ scene_pc = "compile_volume"
  /\ IF shaders[shader_index].graph.referenced /\ shaders[shader_index].graph.volume
     THEN /\ CompileTypeBegin(SHADER_TYPE_VOLUME)
          /\ UNCHANGED shaders
     ELSE /\ shaders' = [shaders EXCEPT ![shader_index].osl_volume_ref = EmptyRef]
          /\ scene_pc' = "compile_displacement"
          /\ UNCHANGED <<group, nodes_emitted>>
  /\ UNCHANGED <<scene_shaders, background, shader_index, progress_cancel, need_update,
                 has_bump, og, sealed, reported, skipped, no_scene_vars>>

\* "generate displacement shader"
CompileDisplacement ==
  /\ scene_pc = "compile_displacement"
  /\ IF shaders[shader_index].graph.referenced /\ shaders[shader_index].graph.displacement
     THEN /\ CompileTypeBegin(SHADER_TYPE_DISPLACEMENT)
          /\ UNCHANGED shaders
     ELSE /\ shaders' = [shaders EXCEPT ![shader_index].osl_displacement_ref = EmptyRef]
          /\ scene_pc' = "compile_return"
          /\ UNCHANGED <<group, nodes_emitted>>
  /\ UNCHANGED <<scene_shaders, background, shader_index, progress_cancel, need_update,
                 has_bump, og, sealed, reported, skipped, no_scene_vars>>

\* OSLShaderManager::device_free
DeviceFree ==
  /\ scene_pc = "idle"
  /\ og' = [use |-> FALSE,
            surface_state |-> ClearedTable(og.surface_state),
            volume_state |-> ClearedTable(og.volume_state),
            displacement_state |-> ClearedTable(og.displacement_state),
            bump_state |-> ClearedTable(og.bump_state),
            background_state |-> EmptyRef,
            ss |-> NULL, ts |-> NULL, services |-> og.services]
  /\ UNCHANGED <<scene_pc, scene_shaders, shaders, background, shader_index, progress_cancel,
                 need_update, has_bump, group, nodes_emitted, sealed, reported, skipped,
                 no_scene_vars>>

\* OSLShaderManager::device_update_specific
DeviceUpdate ==
  /\ scene_pc = "idle"
  /\ IF need_update
     THEN /\ LET surface_state == PushedTable(ClearedTable(og.surface_state), "osl_surface_ref")
             IN og' = [use |-> TRUE,
                       surface_state |-> surface_state,
                       volume_state |->
                         PushedTable(ClearedTable(og.volume_state), "osl_volume_ref"),
                       displacement_state |->
                         PushedTable(ClearedTable(og.displacement_state),
                                     "osl_displacement_ref"),
                       bump_state |->
                         PushedTable(ClearedTable(og.bump_state), "osl_surface_bump_ref"),
                       background_state |-> surface_state[GetShaderId(background) + 1],
                       ss |-> ss[SceneManager], ts |-> ts[SceneManager],
                       services |-> services[SceneManager]]
          /\ shaders' = [i \in 1..scene_shaders |-> [shaders[i] EXCEPT !.is_modified = FALSE]]
          /\ need_update' = FALSE
     ELSE UNCHANGED <<og, shaders, need_update>>
  /\ UNCHANGED <<scene_pc, scene_shaders, background, shader_index, progress_cancel, has_bump,
                 group, nodes_emitted, sealed, reported, skipped, no_scene_vars>>

\* the compile of one shader of any graph, with nodes of any report
NextCompile ==
  \/ \E graph \in ShaderGraphs : SetGraph(1, graph)
  \/ HostUpdatePass
  \/ HostUpdateShader
  \/ Compile
  \/ CompileSurface
  \/ \E reports \in NodeReports : EmitNode(reports)
  \/ CompileTypeEnd
  \/ CompileVolume
  \/ CompileDisplacement
  \/ HostUpdateNext
  \/ HostUpdateEnd

\* one shader of any graph, not compiled yet
InitCompile == InitGraph /\ InitShared /\ InitSceneOf(1, ShaderGraphs) /\ InitExt

SpecCompile == InitCompile /\ [][NextCompile]_vars

\* the updates of a scene of MaxShaders shaders, with edits and cancellation
NextScene ==
  \/ \E i \in 1..MaxShaders, graph \in SceneGraphs : SetGraph(i, graph)
  \/ RequestCancel
  \/ ResetCancel
  \/ HostUpdatePass
  \/ HostUpdateShader
  \/ Compile
  \/ CompileSurface
  \/ \E reports \in SceneNodeReports : EmitNode(reports)
  \/ CompileTypeEnd
  \/ CompileVolume
  \/ CompileDisplacement
  \/ HostUpdateNext
  \/ HostUpdateEnd
  \/ DeviceUpdate
  \/ DeviceFree

\* a scene of MaxShaders shaders, none compiled yet
InitScene ==
  /\ InitGraph /\ InitConstructed({SceneManager})
  /\ InitSceneOf(MaxShaders, SceneGraphs) /\ InitExt

SpecScene == InitScene /\ [][NextScene]_vars

(***************************************************************************)
(* The OSLGlobals of the scene's device over the life of the managers: the  *)
(* scene's thread runs device_update_specific and device_free, the scene    *)
(* is edited, and the managers are reset, destroyed and constructed.  The   *)
(* calls on the scene's manager run one after the other on its thread.      *)
(***************************************************************************)
\* the scene's manager exists and is inside none of its operations
SceneManagerIdle == mgr_pc[SceneManager] = "idle"

\* scene->shaders[1] is edited and tagged
GlobalsSetGraph == SceneManagerIdle /\ SetGraph(1, DefaultGraph)

\* shader_manager->device_update_specific(device, dscene, scene, progress)
GlobalsDeviceUpdate == SceneManagerIdle /\ DeviceUpdate

\* shader_manager->device_free(device, dscene, scene)
GlobalsDeviceFree == SceneManagerIdle /\ DeviceFree

NextGlobals ==
  \/ GlobalsSetGraph
  \/ GlobalsDeviceUpdate
  \/ GlobalsDeviceFree
  \/ \E s \in Sessions : Construct(s)
  \/ \E s \in Sessions : Destroy(s)
  \/ \E s \in Sessions : Reset(s)
  \/ \E s \in Sessions : LockTsSharedMutex(s)
  \/ \E s \in Sessions : TextureSystemInit(s)
  \/ \E s \in Sessions : TextureSystemFree(s)
  \/ \E s \in Sessions : LockSsSharedMutex(s)
  \/ \E s \in Sessions : ShadingSystemInit(s)
  \/ \E s \in Sessions : ShadingSystemFree(s)

\* the scene's manager is constructed, alone or with the manager of
\* another session; nothing is on the device yet
InitGlobals ==
  /\ InitGraph
  /\ \E alive \in {{SceneManager}, Sessions} : InitConstructed(alive)
  /\ InitSceneOf(1, {DefaultGraph}) /\ InitExt

SpecGlobals == InitGlobals /\ [][NextGlobals]_vars

(***************************************************************************)
(* The shaders the managers load from files and from bytecode:             *)
(* OSLShaderManager::shader_load_filepath and shader_load_bytecode, asked  *)
(* by osl_node when a script node is made and by OSLCompiler::add when it  *)
(* is compiled, while the files change on disk.  A file path is            *)
(* <<directory, name, extension>>; each request runs to its end before the *)
(* next one begins.                                                        *)
(***************************************************************************)
no_load_vars ==
  <<graph_vars, compile_vars, shared_vars, scene_vars, osl_node_vars, svm_vars, stack_vars>>

\* const char * NULL for a hash
NoHash == <<>>

\* the paths osl_node and add are given: the .osl, the .oso, a bare name that
\* is looked up in the search path, and a file of another kind
BareName == <<"", "shader", "">>
OtherFile == <<"dir", "shader", ".txt">>
FilePaths == {OslFile, OsoFile, BareName, OtherFile}

\* the bytecode hashes osl_node is given
BytecodeHashes == {<<<<"", "bytecode", "">>, 0>>}

\* path_modified_time(filepath)
path_modified_time(mtimes, filepath) ==
  IF filepath \in Files THEN mtimes[filepath] ELSE 0

\* path_read_text(filepath, bytecode)
path_read_text(mtimes, filepath) ==
  /\ filepath \in Files
  /\ mtimes[filepath] # 0
  /\ fs_readable[filepath]

\* shader_filepath_hash(filepath, modified_time): the MD5 of both
shader_filepath_hash(filepath, modified_time) == <<filepath, modified_time>>

\* a lookup that finds nothing
shader_test_loaded_never(m, hash) == NoHash

\* OSLShaderManager::shader_test_loaded(hash)
shader_test_loaded(m, hash) ==
  IF hash \in loaded_shaders[m] THEN hash ELSE NoHash

\* OSLShaderManager::osl_compile(inputfile, outputfile): the modification
\* times after it; the .oso is written when the .osl is there and compiles
osl_compile(mtimes, inputfile, outputfile) ==
  IF path_modified_time(mtimes, inputfile) # 0 /\ fs_readable[inputfile]
  THEN [mtimes EXCEPT ![outputfile] = fs_clock + 1]
  ELSE mtimes

\* shader_load_filepath returns the hash it found in loaded_shaders
FoundLoaded(hash, file) ==
  [key |-> hash, result |-> hash, read |-> FALSE, compiled |-> FALSE, loaded |-> FALSE,
   cached |-> FALSE, mtimes |-> fs_mtime, file |-> file]

\* shader_load_filepath returns NULL for a file of unknown kind
UnknownFile(file) ==
  [key |-> NoHash, result |-> NoHash, read |-> FALSE, compiled |-> FALSE, loaded |-> FALSE,
   cached |-> FALSE, mtimes |-> fs_mtime, file |-> file]

\* a failed read that stores nothing, and a load that stores nothing
ReadBytecodeNotStored(filepath, modified_time, mtimes, compiled) ==
  LET bytecode_hash == shader_filepath_hash(filepath, modified_time) IN
    [key |-> bytecode_hash,
     result |-> IF path_read_text(mtimes, filepath) THEN bytecode_hash ELSE NoHash,
     read |-> TRUE, compiled |-> compiled,
     loaded |-> path_read_text(mtimes, filepath),
     cached |-> FALSE, mtimes |-> mtimes, file |-> filepath]

\* shader_load_filepath from "read oso bytecode from file" on: the file is
\* read; when that fails an empty OSLShaderInfo is stored under the hash and
\* NULL returned, else shader_load_bytecode loads the bytecode into the
\* shading system, stores its info under the hash and returns the hash
ReadBytecode(filepath, modified_time, mtimes, compiled) ==
  LET bytecode_hash == shader_filepath_hash(filepath, modified_time) IN
    [key |-> bytecode_hash,
     result |-> IF path_read_text(mtimes, filepath) THEN bytecode_hash ELSE NoHash,
     read |-> TRUE, compiled |-> compiled,
     loaded |-> path_read_text(mtimes, filepath),
     cached |-> TRUE, mtimes |-> mtimes, file |-> filepath]

\* OSLShaderManager::shader_load_filepath(filepath) of manager m: what it
\* returns and does
shader_load_filepath(m, filepath) ==
  LET extension == filepath[3]
      modified_time == path_modified_time(fs_mtime, filepath)
  IN IF extension = ".osl"
     THEN LET osopath == <<filepath[1], filepath[2], ".oso">>
              oso_modified_time == path_modified_time(fs_mtime, osopath)
              hash == shader_filepath_hash(osopath, oso_modified_time)
          IN IF oso_modified_time # 0 /\ shader_test_loaded(m, hash) # NoHash
             THEN FoundLoaded(hash, osopath)
             ELSE IF oso_modified_time = 0 \/ oso_modified_time < modified_time
                  THEN LET mtimes == osl_compile(fs_mtime, filepath, osopath) IN
                         ReadBytecode(osopath, path_modified_time(mtimes, osopath), mtimes,
                                      TRUE)
                  ELSE ReadBytecode(osopath, oso_modified_time, fs_mtime, FALSE)
     ELSE IF extension = ".oso" \/ filepath[1] = ""
          THEN LET file == IF extension = ".oso"
                           THEN filepath
                           ELSE <<"shaders", filepath[2], ".oso">>
                   hash == shader_filepath_hash(file, modified_time)
               IN IF shader_test_loaded(m, hash) # NoHash
                  THEN FoundLoaded(hash, file)
                  ELSE ReadBytecode(file, modified_time, fs_mtime, FALSE)
          ELSE UnknownFile(filepath)

\* the request of `caller` for the shader of a file is served by manager m;
\* `made` tells whether the caller went on with the hash it got
LoadFilepath(m, caller, filepath) ==
  /\ mgr_pc[m] = "idle"
  /\ Len(load_log) < MaxRequests
  /\ LET o == shader_load_filepath(m, filepath) IN
       /\ o.mtimes # fs_mtime => fs_clock < MaxTime
       /\ fs_mtime' = o.mtimes
       /\ fs_clock' = IF o.mtimes # fs_mtime THEN fs_clock + 1 ELSE fs_clock
       /\ loaded_shaders' =
            [loaded_shaders EXCEPT ![m] = IF o.cached THEN @ \cup {o.key} ELSE @]
       /\ load_log' = Append(load_log,
            [manager |-> m, caller |-> caller, filepath |-> filepath, key |-> o.key,
             result |-> o.result, read |-> o.read, compiled |-> o.compiled,
             loaded |-> o.loaded, readable |-> path_read_text(o.mtimes, o.file),
             made |-> o.result # NoHash, before |-> fs_mtime, after |-> o.mtimes,
             ss |-> ss[m], cached |-> o.cached])
  /\ UNCHANGED <<fs_readable, no_load_vars>>

\* OSLShaderManager::osl_node(graph, manager, filepath, "", ""): NULL when
\* shader_load_filepath returns NULL, else a node is made
OslNodeFilepath(m, filepath) ==
  /\ filepath \in FilePaths
  /\ LoadFilepath(m, "osl_node", filepath)

\* OSLCompiler::add(node, name, isfilepath = true): returns at once when
\* shader_load_filepath returns NULL, else binds the parameters, makes the
\* layer and the connections and sets the flags of the shader
AddFilepath(m, filepath) ==
  /\ filepath \in FilePaths
  /\ LoadFilepath(m, "add", filepath)

\* OSLShaderManager::osl_node(graph, manager, "", bytecode_hash, bytecode)
OslNodeBytecode(m, bytecode_hash) ==
  /\ mgr_pc[m] = "idle"
  /\ Len(load_log) < MaxRequests
  /\ LET hash == shader_test_loaded(m, bytecode_hash) IN
       /\ loaded_shaders' = [loaded_shaders EXCEPT ![m] = @ \cup {bytecode_hash}]
       /\ load_log' = Append(load_log,
            [manager |-> m, caller |-> "osl_node", filepath |-> NoHash,
             key |-> bytecode_hash, result |-> bytecode_hash, read |-> FALSE,
             compiled |-> FALSE, loaded |-> (hash = NoHash), readable |-> TRUE,
             made |-> TRUE, before |-> fs_mtime, after |-> fs_mtime, ss |-> ss[m],
             cached |-> TRUE])
  /\ UNCHANGED <<fs_mtime, fs_readable, fs_clock, no_load_vars>>

\* the file is written anew by something outside the program
Touch(file) ==
  /\ fs_clock < MaxTime
  /\ Len(load_log) < MaxRequests
  /\ fs_mtime' = [fs_mtime EXCEPT ![file] = fs_clock + 1]
  /\ fs_clock' = fs_clock + 1
  /\ UNCHANGED <<fs_readable, loaded_shaders, load_log, no_load_vars>>

NextLoad ==
  \/ \E m \in Sessions, filepath \in FilePaths : OslNodeFilepath(m, filepath)
  \/ \E m \in Sessions, filepath \in {OslFile, OsoFile} : AddFilepath(m, filepath)
  \/ \E m \in Sessions, bytecode_hash \in BytecodeHashes : OslNodeBytecode(m, bytecode_hash)
  \/ \E file \in {OslFile, OsoFile} : Touch(file)
  \/ \E m \in Sessions : Reset(m)
  \/ \E m \in Sessions : LockSsSharedMutex(m)
  \/ \E m \in Sessions : ShadingSystemFree(m)
  \/ \E m \in Sessions : ShadingSystemInit(m)

\* one manager or two are constructed; the .osl and the .oso are there or
\* not, readable or not
InitLoad ==
  /\ InitGraph /\ InitSceneOf(1, {DefaultGraph})
  /\ \E alive \in {{1}, Sessions} : InitConstructed(alive)
  /\ InitLoadOf({0, 1}, BOOLEAN) /\ InitOslNodeOf(<<>>) /\ InitSvm /\ InitStack

SpecLoad == InitLoad /\ [][NextLoad]_vars

(***************************************************************************)
(* The node OSLShaderManager::osl_node makes from the parameters a shader   *)
(* declares, from the point where it has the OSLShaderInfo of the hash: the *)
(* loop that counts the inputs, OSLNode::create, and the loop that adds the *)
(* sockets.  A parameter is what OSLQuery::Parameter tells of it.           *)
(***************************************************************************)
no_osl_node_vars ==
  <<graph_vars, compile_vars, shared_vars, scene_vars, load_vars, svm_vars, stack_vars>>

\* the types a parameter is declared with, as TypeDesc and isclosure show them
ParamTypes ==
  [int |-> [isclosure |-> FALSE, vecsemantics |-> "NOSEMANTICS", aggregate |-> "SCALAR",
            basetype |-> "INT"],
   float |-> [isclosure |-> FALSE, vecsemantics |-> "NOSEMANTICS", aggregate |-> "SCALAR",
              basetype |-> "FLOAT"],
   string |-> [isclosure |-> FALSE, vecsemantics |-> "NOSEMANTICS", aggregate |-> "SCALAR",
               basetype |-> "STRING"],
   color |-> [isclosure |-> FALSE, vecsemantics |-> "COLOR", aggregate |-> "VEC3",
              basetype |-> "FLOAT"],
   point |-> [isclosure |-> FALSE, vecsemantics |-> "POINT", aggregate |-> "VEC3",
              basetype |-> "FLOAT"],
   vector |-> [isclosure |-> FALSE, vecsemantics |-> "VECTOR", aggregate |-> "VEC3",
               basetype |-> "FLOAT"],
   normal |-> [isclosure |-> FALSE, vecsemantics |-> "NORMAL", aggregate |-> "VEC3",
               basetype |-> "FLOAT"],
   matrix |-> [isclosure |-> FALSE, vecsemantics |-> "NOSEMANTICS", aggregate |-> "MATRIX44",
               basetype |-> "FLOAT"],
   closure |-> [isclosure |-> TRUE, vecsemantics |-> "COLOR", aggregate |-> "VEC3",
                basetype |-> "FLOAT"],
   timecode |-> [isclosure |-> FALSE, vecsemantics |-> "TIMECODE", aggregate |-> "SCALAR",
                 basetype |-> "UINT"],
   unknown |-> [isclosure |-> FALSE, vecsemantics |-> "NOSEMANTICS", aggregate |-> "SCALAR",
                basetype |-> "UNKNOWN"]]

\* the shapes a parameter is declared with: single, array of one, array of
\* two, array of variable length, struct
ParamShapes ==
  {[varlenarray |-> FALSE, isstruct |-> FALSE, arraylen |-> 0],
   [varlenarray |-> FALSE, isstruct |-> FALSE, arraylen |-> 1],
   [varlenarray |-> FALSE, isstruct |-> FALSE, arraylen |-> 2],
   [varlenarray |-> TRUE, isstruct |-> FALSE, arraylen |-> 0 - 1],
   [varlenarray |-> FALSE, isstruct |-> TRUE, arraylen |-> 0]}

\* OSL::OSLQuery::Parameter
Parameters ==
  {[type |-> name, isclosure |-> ParamTypes[name].isclosure,
    vecsemantics |-> ParamTypes[name].vecsemantics,
    aggregate |-> ParamTypes[name].aggregate, basetype |-> ParamTypes[name].basetype,
    varlenarray |-> shape.varlenarray, isstruct |-> shape.isstruct,
    arraylen |-> shape.arraylen, isoutput |-> isoutput] :
     name \in DOMAIN ParamTypes, shape \in ParamShapes, isoutput \in BOOLEAN}

\* the queries of at most MaxParams parameters
Queries == UNION {[1..n -> Parameters] : n \in 0..MaxParams}

\* `continue` in place of a socket type
NoSocketType == "continue"

\* skip unsupported types, with the struct let through
SkipUnsupportedNoStruct(param) ==
  param.varlenarray \/ param.arraylen > 1

\* skip unsupported types:
\* param->varlenarray || param->isstruct || param->type.arraylen > 1
SkipUnsupported(param) ==
  param.varlenarray \/ param.isstruct \/ param.arraylen > 1

\* the socket_type the second loop finds for a parameter it did not skip
SocketTypeOf(param) ==
  IF param.isclosure THEN "CLOSURE"
  ELSE IF param.vecsemantics # "NOSEMANTICS"
       THEN IF param.vecsemantics = "COLOR" THEN "COLOR"
            ELSE IF param.vecsemantics = "POINT" THEN "POINT"
            ELSE IF param.vecsemantics = "VECTOR" THEN "VECTOR"
            ELSE IF param.vecsemantics = "NORMAL" THEN "NORMAL"
            ELSE NoSocketType
       ELSE IF param.aggregate = "SCALAR"
            THEN IF param.basetype = "INT" THEN "INT"
                 ELSE IF param.basetype = "FLOAT" THEN "FLOAT"
                 ELSE IF param.basetype = "STRING" THEN "STRING"
                 ELSE NoSocketType
            ELSE NoSocketType

\* one turn of the loop that counts the inputs
CountInputs ==
  /\ node_pc = "count"
  /\ param_index < Len(query)
  /\ param_index' = param_index + 1
  /\ LET param == query[param_index + 1] IN
       num_inputs' = IF ~SkipUnsupported(param) /\ ~param.isoutput
                     THEN num_inputs + 1
                     ELSE num_inputs
  /\ UNCHANGED <<node_pc, query, node_inputs, node_outputs, no_osl_node_vars>>

\* OSLNode::create(graph, num_inputs), at the end of the first loop
OSLNodeCreate ==
  /\ node_pc = "count"
  /\ param_index = Len(query)
  /\ node_pc' = "add"
  /\ param_index' = 0
  /\ UNCHANGED <<query, num_inputs, node_inputs, node_outputs, no_osl_node_vars>>

\* one turn of the loop that adds the sockets
AddSockets ==
  /\ node_pc = "add"
  /\ param_index < Len(query)
  /\ param_index' = param_index + 1
  /\ LET param == query[param_index + 1]
         socket_type == SocketTypeOf(param)
     IN  IF SkipUnsupported(param) \/ socket_type = NoSocketType
         THEN UNCHANGED <<node_inputs, node_outputs>>
         ELSE IF param.isoutput
              THEN /\ node_outputs' = Append(node_outputs, <<param_index + 1, socket_type>>)
                   /\ UNCHANGED node_inputs
              ELSE /\ node_inputs' = Append(node_inputs, <<param_index + 1, socket_type>>)
                   /\ UNCHANGED node_outputs
  /\ UNCHANGED <<node_pc, query, num_inputs, no_osl_node_vars>>

\* the end of the second loop: the node is returned
ReturnNode ==
  /\ node_pc = "add"
  /\ param_index = Len(query)
  /\ node_pc' = "return"
  /\ UNCHANGED <<query, param_index, num_inputs, node_inputs, node_outputs,
                 no_osl_node_vars>>

NextOslNode ==
  \/ CountInputs
  \/ OSLNodeCreate
  \/ AddSockets
  \/ ReturnNode

\* osl_node has found the OSLShaderInfo of a shader with any query
InitOslNode ==
  /\ InitGraph /\ InitShared /\ InitSceneOf(1, {DefaultGraph})
  /\ InitLoadOf({1}, {TRUE}) /\ InitSvm /\ InitStack
  /\ \E declared \in Queries : InitOslNodeOf(declared)

SpecOslNode == InitOslNode /\ [][NextOslNode]_vars

(***************************************************************************)
(* The @svm names OSLCompiler::parameter_texture(name, svm_slot) and        *)
(* parameter_texture_ies make while the sessions of the process compile     *)
(* their shaders.  texture_shared_unique_id++ on the static int is a read   *)
(* and a write, which another thread's may come between when nothing        *)
(* keeps it out.                                                            *)
(***************************************************************************)
compile_rest_vars ==
  <<pc, current_type, dependencies, done, nodes_done, cursor, emitted, connections, scans,
    scan_emitted, parameters, previous>>
no_svm_vars ==
  <<graph_vars, compile_rest_vars, scene_vars, loaded_shaders, load_rest_vars, osl_node_vars,
    stack_vars>>

\* the parameter_texture calls under way
SvmReads == {s \in Sessions : svm_read[s] # NoRead}

\* texture_shared_unique_id++ of parameter_texture or parameter_texture_ies,
\* in a node the session compiles: the read
ParameterTextureRead(s) ==
  /\ mgr_pc[s] = "compile_type"
  /\ Len(svm_filenames) + Cardinality(SvmReads) < MaxTextures
  /\ svm_read' = [svm_read EXCEPT ![s] = texture_shared_unique_id]
  /\ Goto(s, "parameter_texture")
  /\ UNCHANGED <<ts, ss, services, shaders_left, ts_static_vars, ss_static_vars,
                 ts_shared_mutex, ss_shared_mutex, ss_mutex, group_vars,
                 texture_shared_unique_id, svm_filenames, no_svm_vars>>

\* the write of texture_shared_unique_id++ and
\* services->textures.insert(filename, ...) with the name of the value read
ParameterTextureWrite(s) ==
  /\ mgr_pc[s] = "parameter_texture"
  /\ texture_shared_unique_id' = svm_read[s] + 1
  /\ svm_filenames' = Append(svm_filenames, <<s, svm_read[s]>>)
  /\ svm_read' = [svm_read EXCEPT ![s] = NoRead]
  /\ Goto(s, "compile_type")
  /\ UNCHANGED <<ts, ss, services, shaders_left, ts_static_vars, ss_static_vars,
                 ts_shared_mutex, ss_shared_mutex, ss_mutex, group_vars, no_svm_vars>>

NextTextures ==
  \/ \E s \in Sessions, nshaders \in 1..MaxShaders : HostUpdate(s, nshaders)
  \/ \E s \in Sessions, cancel \in BOOLEAN : HostUpdateCancelTest(s, cancel)
  \/ \E s \in Sessions : LockSsMutex(s)
  \/ \E s \in Sessions : ShaderGroupBegin(s)
  \/ \E s \in Sessions : ShaderLayer(s)
  \/ \E s \in Sessions : ParameterTextureRead(s)
  \/ \E s \in Sessions : ParameterTextureWrite(s)
  \/ \E s \in Sessions : ShaderGroupEnd(s)
  \/ \E s \in Sessions : CompileReturn(s)
  \/ \E s \in Sessions : LockSsSharedMutex(s)
  \/ \E s \in Sessions : OptimizeAllGroupsReturn(s)

\* the sessions of the process have their managers
InitTextures ==
  /\ InitGraph /\ InitConstructed(Sessions) /\ InitSceneOf(1, {DefaultGraph})
  /\ InitExt

SpecTextures == InitTextures /\ [][NextTextures]_vars

(***************************************************************************)
(* The stack of the SVM compiler.  SVMCompiler::compile calls compile_type  *)
(* for the contexts of the shaders one after the other; compile_type gives  *)
(* the values of the graph their slots with stack_assign, which scans       *)
(* active_stack.users for the first run of free slots, counts the users of  *)
(* a value and frees its slots when the last one has gone.  When no run is  *)
(* found compile_failed is set, the context is given up and its             *)
(* instructions are thrown away.                                            *)
(***************************************************************************)
no_stack_vars ==
  <<graph_vars, compile_vars, shared_vars, scene_vars, load_vars, osl_node_vars, svm_vars>>

\* the slot counts as free whatever its users
SlotFreeAlways(stack, i) == TRUE

\* users[i] is zero, as Stack::empty tests it
SlotFree(stack, i) == stack[i] = 0

\* SVMCompiler::stack_size: 1 slot for a scalar, 3 for a vector-like type
SocketSizes == {1, 3}

\* the slots of a value of `size` slots at `offset`
Region(offset, size) == offset..(offset + size - 1)

\* the scan of stack_find_offset from slot i on, num_unused free slots just
\* before it: the offset of the first run of `size` free slots, or
\* SVM_STACK_INVALID
RECURSIVE stack_scan(_, _, _, _)
stack_scan(stack, size, i, num_unused) ==
  IF i \notin StackSlots
  THEN SVM_STACK_INVALID
  ELSE LET unused == IF SlotFree(stack, i) THEN num_unused + 1 ELSE 0 IN
         IF unused = size
         THEN i + 1 - size
         ELSE stack_scan(stack, size, i + 1, unused)

\* SVMCompiler::stack_find_offset(size): first fit
stack_find_offset(stack, size) == stack_scan(stack, size, 0, 0)

\* the stack with one more user, or one fewer, in each slot of the region
StackAdd(stack, slots, by) ==
  [i \in DOMAIN stack |-> IF i \in slots THEN stack[i] + by ELSE stack[i]]

\* compile_type begins for the context that has gone ahead with the flag
\* and the stack the last context left
SvmCompileTypeBeginKeep ==
  /\ svm_pc = "begin"
  /\ svm_pc' = "generate"
  /\ stack_offset' = [v \in Values |-> SVM_STACK_INVALID]
  /\ stack_size' = [v \in Values |-> 0]
  /\ stack_users' = [v \in Values |-> 0]
  /\ current_svm_nodes' = 0
  /\ UNCHANGED <<svm_context, active_stack, max_stack_use, compile_failed, svm_nodes,
                 svm_failed, no_stack_vars>>

\* SVMCompiler::compile_type begins for the next context: an empty stack,
\* no instruction, no failure
SvmCompileTypeBegin ==
  /\ svm_pc = "begin"
  /\ svm_pc' = "generate"
  /\ active_stack' = EmptyStack
  /\ stack_offset' = [v \in Values |-> SVM_STACK_INVALID]
  /\ stack_size' = [v \in Values |-> 0]
  /\ stack_users' = [v \in Values |-> 0]
  /\ max_stack_use' = 0
  /\ compile_failed' = FALSE
  /\ current_svm_nodes' = 0
  /\ UNCHANGED <<svm_context, svm_nodes, svm_failed, no_stack_vars>>

\* SVMCompiler::stack_assign(output) for an output with no offset yet, of a
\* socket type of `size` slots, and the instruction that writes the value
StackAssign(v, size) ==
  /\ svm_pc = "generate"
  /\ ~compile_failed
  /\ stack_offset[v] = SVM_STACK_INVALID
  /\ LET offset == stack_find_offset(active_stack, size) IN
       IF offset = SVM_STACK_INVALID
       THEN /\ compile_failed' = TRUE
            /\ svm_failed' = svm_failed \cup {svm_context}
            /\ UNCHANGED <<active_stack, stack_offset, stack_size, stack_users,
                           max_stack_use, current_svm_nodes>>
       ELSE /\ active_stack' = StackAdd(active_stack, Region(offset, size), 1)
            /\ stack_offset' = [stack_offset EXCEPT ![v] = offset]
            /\ stack_size' = [stack_size EXCEPT ![v] = size]
            /\ stack_users' = [stack_users EXCEPT ![v] = 1]
            /\ max_stack_use' = IF offset + size > max_stack_use
                                THEN offset + size
                                ELSE max_stack_use
            /\ current_svm_nodes' = current_svm_nodes + 1
            /\ UNCHANGED <<compile_failed, svm_failed>>
  /\ UNCHANGED <<svm_pc, svm_context, svm_nodes, no_stack_vars>>

\* one more node reads the value: its slots get one more user
StackAddUser(v) ==
  /\ svm_pc = "generate"
  /\ ~compile_failed
  /\ stack_users[v] > 0
  /\ stack_users[v] < MaxUsers
  /\ active_stack' = StackAdd(active_stack, Region(stack_offset[v], stack_size[v]), 1)
  /\ stack_users' = [stack_users EXCEPT ![v] = @ + 1]
  /\ UNCHANGED <<svm_pc, svm_context, stack_offset, stack_size, max_stack_use,
                 compile_failed, current_svm_nodes, svm_nodes, svm_failed, no_stack_vars>>

\* stack_clear_offset that frees the slots at once, whatever users remain
StackClearOffsetFree(v) ==
  /\ svm_pc = "generate"
  /\ ~compile_failed
  /\ stack_users[v] > 0
  /\ active_stack' = [i \in DOMAIN active_stack |->
                        IF i \in Region(stack_offset[v], stack_size[v])
                        THEN 0
                        ELSE active_stack[i]]
  /\ stack_users' = [stack_users EXCEPT ![v] = @ - 1]
  /\ UNCHANGED <<svm_pc, svm_context, stack_offset, stack_size, max_stack_use,
                 compile_failed, current_svm_nodes, svm_nodes, svm_failed, no_stack_vars>>

\* SVMCompiler::stack_clear_offset(type, offset) when a node that read the
\* value has been emitted: its slots lose one user
StackClearOffset(v) ==
  /\ svm_pc = "generate"
  /\ ~compile_failed
  /\ stack_users[v] > 0
  /\ active_stack' = StackAdd(active_stack, Region(stack_offset[v], stack_size[v]), 0 - 1)
  /\ stack_users' = [stack_users EXCEPT ![v] = @ - 1]
  /\ UNCHANGED <<svm_pc, svm_context, stack_offset, stack_size, max_stack_use,
                 compile_failed, current_svm_nodes, svm_nodes, svm_failed, no_stack_vars>>

\* compile_type ends, given up or complete: the instructions of a failed
\* context are thrown away, those of another become the program of the
\* context; compile goes on to the next context
SvmCompileTypeEnd ==
  /\ svm_pc = "generate"
  /\ svm_nodes' = [svm_nodes EXCEPT ![svm_context] =
                     IF compile_failed
                     THEN [state |-> "empty", nodes |-> 0]
                     ELSE [state |-> "valid", nodes |-> current_svm_nodes]]
  /\ IF svm_context < Len(SvmContexts)
     THEN /\ svm_context' = svm_context + 1
          /\ svm_pc' = "begin"
     ELSE /\ svm_pc' = "done"
          /\ UNCHANGED svm_context
  /\ UNCHANGED <<active_stack, stack_offset, stack_size, stack_users, max_stack_use,
                 compile_failed, current_svm_nodes, svm_failed, no_stack_vars>>

NextStack ==
  \/ SvmCompileTypeBegin
  \/ \E v \in Values, size \in SocketSizes : StackAssign(v, size)
  \/ \E v \in Values : StackAddUser(v)
  \/ \E v \in Values : StackClearOffset(v)
  \/ SvmCompileTypeEnd

\* SVMCompiler::compile is about to compile the first context
InitSvmCompile ==
  /\ InitGraph /\ InitShared /\ InitSceneOf(1, {DefaultGraph})
  /\ InitExt

SpecStack == InitSvmCompile /\ [][NextStack]_vars

(***************************************************************************)
(* A linear chain of nodes compiled by compile_type: node k reads value     *)
(* k - 1 and writes value k; the last node reads the last value.  A node    *)
(* is emitted with its input and its output on the stack, and its input is  *)
(* released when it has been emitted.                                       *)
(***************************************************************************)
\* node v of the chain is emitted before the node before it has released its
\* input
ChainAssignEarly(v, size) ==
  /\ \A u \in Values : u < v => stack_offset[u] # SVM_STACK_INVALID
  /\ StackAssign(v, size)

\* node v of the chain is emitted: its output is given its slots, once every
\* node before it has been emitted and has released its input
ChainAssign(v, size) ==
  /\ \A u \in Values : u < v => stack_offset[u] # SVM_STACK_INVALID
  /\ \A u \in Values : u < v - 1 => stack_users[u] = 0
  /\ StackAssign(v, size)

\* the node that reads value v has been emitted and releases it: node v + 1
\* has its output, or v is the last value and the value before it is released
ChainRelease(v) ==
  /\ IF v < MaxValues
     THEN stack_offset[v + 1] # SVM_STACK_INVALID
     ELSE \A u \in Values : u < v => stack_users[u] = 0
  /\ StackClearOffset(v)

NextChain ==
  \/ SvmCompileTypeBegin
  \/ \E v \in Values, size \in SocketSizes : ChainAssign(v, size)
  \/ \E v \in Values : ChainRelease(v)
  \/ SvmCompileTypeEnd

\* SVMCompiler::compile is about to compile the first chain
InitChain ==
  /\ InitGraph /\ InitShared /\ InitSceneOf(1, {DefaultGraph})
  /\ InitExt

SpecChain == InitChain /\ [][NextChain]_vars

(***************************************************************************)
(* Properties of one compile_type call (specification Spec).               *)
(***************************************************************************)
\* the source nodes of the linked inputs of a node that node_skip_input keeps
RelevantSources(type, node) ==
  {link[node][i] :
     i \in {j \in 1..NumInputs(node) : link[node][j] # NULL /\ ~NodeSkipInput(type, node, j)}}

\* the positions of a node in the sequence of node->compile calls
Positions(node) == {k \in 1..Len(emitted) : emitted[k] = node}

Compiling == pc # "graph"
GenerateEnded == pc \in {"output", "end"}

\* C1: a node is compiled only after the source node of each of its linked
\* inputs that node_skip_input does not skip has been compiled, and the
\* Output node is compiled after every node of the dependency set.
C1_CompiledAfterSources ==
  \A k \in 1..Len(emitted) :
    /\ \A src \in RelevantSources(current_type, emitted[k]) :
         \E j \in 1..(k - 1) : emitted[j] = src
    /\ emitted[k] = OutputNode =>
         \A node \in dependencies : \E j \in 1..(k - 1) : emitted[j] = node

\* a compilation that ended after more than one scan: some node has a lower
\* id than a node it depends on
C1_Witness ==
  /\ pc = "end"
  /\ scans >= 2
  /\ \E node \in dependencies :
       \E src \in RelevantSources(current_type, node) : src > node

\* C2: within one context compilation every node of the dependency set is
\* compiled exactly once, however many nodes consume its output.
C2_CompiledExactlyOnce ==
  /\ \A node \in AllNodes : Cardinality(Positions(node)) <= 1
  /\ GenerateEnded => \A node \in dependencies : Cardinality(Positions(node)) = 1

\* the diamond A->B, A->C, B->D, C->D, D->Output.Surface has been compiled
C2_Witness ==
  /\ pc = "end"
  /\ current_type = SHADER_TYPE_SURFACE
  /\ \E a, b, c, d \in Nodes :
       /\ Cardinality({a, b, c, d}) = 4
       /\ \A n \in {a, b, c, d} : special_type[n] = SHADER_SPECIAL_TYPE_NONE
       /\ RelevantSources(current_type, b) = {a}
       /\ RelevantSources(current_type, c) = {a}
       /\ RelevantSources(current_type, d) = {b, c}
       /\ link[OutputNode][1] = d
       /\ Cardinality(Positions(a)) = 1

\* C3: the set find_dependencies yields is closed under relevant links, and
\* it is empty when the input it started at is not linked.
C3_DependenciesClosed ==
  Compiling =>
    /\ dependencies \subseteq Nodes
    /\ \A node \in dependencies : RelevantSources(current_type, node) \subseteq dependencies
    /\ link[OutputNode][RootInput(current_type)] = NULL => dependencies = {}
    /\ link[OutputNode][RootInput(current_type)] # NULL =>
         link[OutputNode][RootInput(current_type)] \in dependencies

\* a set of three nodes or more, one of them with a second relevant input
C3_Witness ==
  /\ Compiling
  /\ Cardinality(dependencies) >= 3
  /\ \E node \in dependencies : Cardinality(RelevantSources(current_type, node)) = 2

RECURSIVE RelevantUpstream(_, _, _)
\* the nodes reached from the nodes of `from` along links node_skip_input keeps
RelevantUpstream(type, from, seen) ==
  IF from = {} THEN seen
  ELSE RelevantUpstream(
         type,
         UNION {RelevantSources(type, n) : n \in from} \ (seen \cup from),
         seen \cup from)

\* C4: the dependency set holds only nodes reachable from the Output node
\* through links node_skip_input does not skip in the active context, and
\* no other node is compiled or connected.
C4_DeadCodeEliminated ==
  Compiling =>
    LET live == RelevantUpstream(current_type, {OutputNode}, {}) IN
      /\ dependencies \subseteq live
      /\ \A k \in 1..Len(emitted) : emitted[k] \in live
      /\ \A c \in connections : c[1] \in live /\ c[2] \in live

\* Surface has been compiled while a node feeds only the Displacement input
C4_Witness ==
  /\ pc = "end"
  /\ current_type = SHADER_TYPE_SURFACE
  /\ link[OutputNode][1] # NULL
  /\ link[OutputNode][3] # NULL
  /\ link[OutputNode][3] \notin Upstream({link[OutputNode][1]}, {})
  /\ link[OutputNode][3] \notin dependencies
  /\ Positions(link[OutputNode][3]) = {}

\* the context in which an input of the Output node is used
ContextOfOutputInput(name) ==
  CASE name = "Surface" -> SHADER_TYPE_SURFACE
    [] name = "Volume" -> SHADER_TYPE_VOLUME
    [] name = "Displacement" -> SHADER_TYPE_DISPLACEMENT
    [] name = "Normal" -> SHADER_TYPE_BUMP

\* C5: for the Output node, Surface, Volume, Displacement and Normal are
\* skipped exactly when the context is not Surface, Volume, Displacement and
\* Bump, so every context keeps exactly one of them; the Output layer is
\* connected to the source of that input and to no other.
C5_OutputInputOfContext ==
  /\ \A type \in ShaderType :
       /\ \A i \in 1..NumInputs(OutputNode) :
            NodeSkipInput(type, OutputNode, i)
              <=> type # ContextOfOutputInput(InputName(OutputNode, i))
       /\ Cardinality({i \in 1..NumInputs(OutputNode) : ~NodeSkipInput(type, OutputNode, i)}) = 1
  /\ pc = "end" =>
       {c \in connections : c[2] = OutputNode}
         = {<<link[OutputNode][i], OutputNode, i>> :
              i \in {j \in 1..4 : /\ link[OutputNode][j] # NULL
                                  /\ current_type = ContextOfOutputInput(OutputInputs[j])}}

\* Displacement has been compiled with Surface and Displacement both linked:
\* the Output layer is connected to the source of Displacement alone
C5_Witness ==
  /\ pc = "end"
  /\ current_type = SHADER_TYPE_DISPLACEMENT
  /\ link[OutputNode][1] # NULL
  /\ link[OutputNode][3] # NULL
  /\ {c \in connections : c[2] = OutputNode} = {<<link[OutputNode][3], OutputNode, 3>>}

LinkedFromBump(node, i) ==
  /\ link[node][i] # NULL
  /\ special_type[link[node][i]] = SHADER_SPECIAL_TYPE_BUMP

\* C6 as claimed: in the Displacement context node_skip_input skips every
\* input linked from a Bump node, the inputs of Output and Bump nodes included.
C6_Original ==
  \A node \in AllNodes : \A i \in 1..NumInputs(node) :
    LinkedFromBump(node, i) => NodeSkipInput(SHADER_TYPE_DISPLACEMENT, node, i)

\* C6 as amended: in the Displacement context node_skip_input skips every
\* input linked from a Bump node of a node that is neither the Output node
\* nor a Bump node; for the Output node and for Bump nodes the link's source
\* plays no part: the Output node keeps its Displacement input and a Bump
\* node skips Height alone.
C6_BumpLinkSkipped ==
  \A node \in AllNodes : \A i \in 1..NumInputs(node) :
    LinkedFromBump(node, i) =>
      IF special_type[node] = SHADER_SPECIAL_TYPE_OUTPUT
      THEN NodeSkipInput(SHADER_TYPE_DISPLACEMENT, node, i) <=> InputName(node, i) # "Displacement"
      ELSE IF special_type[node] = SHADER_SPECIAL_TYPE_BUMP
      THEN NodeSkipInput(SHADER_TYPE_DISPLACEMENT, node, i) <=> InputName(node, i) = "Height"
      ELSE /\ NodeSkipInput(SHADER_TYPE_DISPLACEMENT, node, i)
           /\ (current_type = SHADER_TYPE_DISPLACEMENT /\ node \in done) =>
                <<link[node][i], node, i>> \notin connections

\* Displacement has been compiled, and a compiled node that is neither Output
\* nor Bump has an input linked from a Bump node that was left out
C6_Witness ==
  /\ pc = "end"
  /\ current_type = SHADER_TYPE_DISPLACEMENT
  /\ \E node \in dependencies : \E i \in 1..NumInputs(node) :
       /\ special_type[node] = SHADER_SPECIAL_TYPE_NONE
       /\ LinkedFromBump(node, i)
       /\ link[node][i] \notin dependencies

\* C7 as claimed: generate_nodes ends after the first full scan in which no
\* node was emitted.
C7_Original ==
  GenerateEnded => scan_emitted = 0

\* C7 as amended: generate_nodes repeats its scan until a scan leaves no node
\* of the set unemitted.  It ends only when every node of the set has been
\* emitted, right after the scan that emitted the last of them (there is no
\* further scan without an emission), and for a set find_dependencies made
\* it takes at most one scan per node.
C7_ScansUntilAllDone ==
  /\ GenerateEnded =>
       /\ done = dependencies
       /\ nodes_done
       /\ dependencies # {} => scan_emitted >= 1
  /\ Compiling =>
       /\ scans <= IF dependencies = {} THEN 1 ELSE Cardinality(dependencies)
       /\ Cardinality(done) >= scans - 1

\* generate_nodes has ended after three scans
C7_Witness ==
  /\ GenerateEnded
  /\ scans >= 3
  /\ scan_emitted >= 1

(***************************************************************************)
(* Properties of the managers of several sessions (specification           *)
(* SpecShared).                                                            *)
(***************************************************************************)
Holders(pointer) == {s \in Sessions : pointer[s] # NULL}
Compilers == {s \in Sessions : mgr_pc[s] \in {"compile", "compile_type"}}
ProgramBuilders ==
  {s \in Sessions : mgr_pc[s] \in {"compile", "compile_type", "optimize_all_groups",
                                   "LoadMemoryCompiledShader"}}

\* C8: under every interleaving of construction, destruction and reset, the
\* shared shading system and the shared texture system exist exactly when
\* their user count is greater than zero, the count is the number of managers
\* that hold the system and is never negative, and every manager that holds a
\* system holds the live one: it is not destroyed while held.
C8_SharedSystemsCounted ==
  /\ ss_shared_users >= 0
  /\ ts_shared_users >= 0
  /\ (ss_shared # NULL) <=> (ss_shared_users > 0)
  /\ (services_shared # NULL) <=> (ss_shared_users > 0)
  /\ (ts_shared # NULL) <=> (ts_shared_users > 0)
  /\ ss_shared_users = Cardinality(Holders(ss))
  /\ ts_shared_users = Cardinality(Holders(ts))
  /\ \A s \in Holders(ss) : ss[s] = ss_shared /\ services[s] = services_shared
  /\ \A s \in Holders(ts) : ts[s] = ts_shared

\* one manager has released the shading system, in reset or in its
\* destructor, while another one still holds it, after an earlier shading
\* system was destroyed by its last releaser
C8_Witness ==
  \E s1, s2 \in Sessions :
    /\ mgr_pc[s1] \in {"reset_shading_system_init", "dtor_texture_system_free"}
    /\ ss[s1] = NULL
    /\ ss[s2] # NULL
    /\ ss_shared_users = 1
    /\ ss_created = 2
    /\ ts_shared_users = 2

\* C9: at most one thread of the process is inside OSLCompiler::compile, and
\* the group between ShaderGroupBegin and ShaderGroupEnd belongs to the
\* session that began it: no other session's calls act on it.
C9_OneCompiler ==
  /\ Cardinality(Compilers) <= 1
  /\ \A s \in Compilers : ss_mutex = s
  /\ \A s \in Sessions : mgr_pc[s] = "compile_type" => ss_group = s
  /\ ss_group # NULL => mgr_pc[ss_group] = "compile_type"

\* one session has added a layer to its open group while another session
\* waits for ss_mutex to compile its own shader
C9_Witness ==
  \E s1, s2 \in Sessions :
    /\ mgr_pc[s1] = "compile_type"
    /\ ss_group_layers > 0
    /\ mgr_pc[s2] = "host_update_lock"

\* C10: no two sessions are at the same time inside an operation that builds
\* or modifies programs on the shared shading system (compile,
\* LoadMemoryCompiledShader, optimize_all_groups).
C10_Original == Cardinality(ProgramBuilders) <= 1

(***************************************************************************)
(* Properties of two compilations of one graph (specification SpecTwice).  *)
(***************************************************************************)
CompiledTwice == pc = "end" /\ Len(previous) = 1
\* the nodes of a set of texture parameters, and their values
ParameterNodes(params) == {p[1] : p \in params}
ParameterValues(params) == {p[2] : p \in params}
IsPrefix(a, b) == Len(a) <= Len(b) /\ \A k \in 1..Len(a) : a[k] = b[k]

C12_Original ==
  CompiledTwice =>
    /\ emitted = previous[1].layers
    /\ connections = previous[1].connections
    /\ \A node \in AllNodes :
         {p \in parameters : p[1] = node} = {p \in previous[1].parameters : p[1] = node}

\* C12 as amended: compiling an unchanged graph twice yields the same layers
\* and connections and sets the same parameters of the same nodes; the value
\* of a texture parameter bound by slot is a name the compiler has not used
\* before, so it differs between the two compilations.
C12_SameUpToTextureNames ==
  /\ ParameterValues(parameters) \subseteq {SvmFilename(id) : id \in 0..(texture_shared_unique_id - 1)}
  /\ Cardinality(parameters) = Cardinality(ParameterValues(parameters))
  /\ CompiledTwice =>
       /\ emitted = previous[1].layers
       /\ connections = previous[1].connections
       /\ ParameterNodes(parameters) = ParameterNodes(previous[1].parameters)
       /\ ParameterNodes(parameters) = {node \in dependencies : texture[node]}
       /\ ParameterValues(parameters) \cap ParameterValues(previous[1].parameters) = {}

\* a graph with a node that binds a texture has been compiled twice
C12_Witness ==
  /\ CompiledTwice
  /\ \E node \in dependencies : texture[node] /\ RelevantSources(current_type, node) # {}
  /\ ParameterValues(parameters) # ParameterValues(previous[1].parameters)

(***************************************************************************)
(* Properties of OSLCompiler::compile on one shader (specification         *)
(* SpecCompile).                                                           *)
(***************************************************************************)
\* the compile of the shader under shader_index has reset the flags
CompilingShader ==
  /\ scene_pc \in {"compile_surface", "compile_type", "compile_volume",
                   "compile_displacement", "compile_return"}
  /\ shaders[shader_index].is_modified

\* compile has come to its end on a modified shader
CompiledShader ==
  /\ scene_pc = "compile_return"
  /\ shaders[shader_index].is_modified

\* C13: from the reset of the flags on, all through the compile of a modified
\* shader and at its end, has_surface_emission is true exactly when a node
\* emitted so far in the Surface context reported emission, and
\* has_surface_transparent exactly when one reported transparency, in
\* whatever order the nodes were emitted.
C13_SurfaceFlags ==
  CompilingShader =>
    /\ shaders[shader_index].has_surface_emission = ("emission" \in reported)
    /\ shaders[shader_index].has_surface_transparent = ("transparent" \in reported)

\* a shader with surface and volume has been compiled; a surface node reported
\* emission, none transparency
C13_Witness ==
  /\ CompiledShader
  /\ shaders[shader_index].has_surface /\ shaders[shader_index].has_volume
  /\ shaders[shader_index].has_surface_emission
  /\ ~shaders[shader_index].has_surface_transparent

\* the handle compile_type returned for the given context of the shader being
\* compiled
CompiledRef(type) == <<shader_index, shaders[shader_index].version, type>>

\* C14 as claimed: after the compile of a modified shader each of the surface,
\* volume and displacement programs is compiled (handle not empty, flag true)
\* exactly when its Output input is linked, else the handle is empty and the
\* flag false.
C14_Original ==
  CompiledShader =>
    LET sh == shaders[shader_index] IN
      /\ sh.graph.surface = (sh.osl_surface_ref # EmptyRef /\ sh.has_surface)
      /\ ~sh.graph.surface => sh.osl_surface_ref = EmptyRef /\ ~sh.has_surface
      /\ sh.graph.volume = (sh.osl_volume_ref # EmptyRef /\ sh.has_volume)
      /\ ~sh.graph.volume => sh.osl_volume_ref = EmptyRef /\ ~sh.has_volume
      /\ sh.graph.displacement = (sh.osl_displacement_ref # EmptyRef /\ sh.has_displacement)
      /\ ~sh.graph.displacement => sh.osl_displacement_ref = EmptyRef /\ ~sh.has_displacement

\* C14: after the compile of a modified shader each of the surface, volume and
\* displacement programs is the program compile_type built for it, with its
\* flag true, exactly when the shader is referenced and the Output input is
\* linked; else the handle is empty and the flag false.  The bump program is
\* built exactly when the surface program is and has_bump was asked for.
C14_CompiledWhenLinkedAndReferenced ==
  CompiledShader =>
    LET sh == shaders[shader_index] IN
      /\ IF sh.graph.referenced /\ sh.graph.surface
         THEN sh.osl_surface_ref = CompiledRef(SHADER_TYPE_SURFACE) /\ sh.has_surface
         ELSE sh.osl_surface_ref = EmptyRef /\ ~sh.has_surface
      /\ IF sh.graph.referenced /\ sh.graph.surface /\ HasBump(sh.graph)
         THEN sh.osl_surface_bump_ref = CompiledRef(SHADER_TYPE_BUMP)
         ELSE sh.osl_surface_bump_ref = EmptyRef
      /\ IF sh.graph.referenced /\ sh.graph.volume
         THEN sh.osl_volume_ref = CompiledRef(SHADER_TYPE_VOLUME) /\ sh.has_volume
         ELSE sh.osl_volume_ref = EmptyRef /\ ~sh.has_volume
      /\ IF sh.graph.referenced /\ sh.graph.displacement
         THEN sh.osl_displacement_ref = CompiledRef(SHADER_TYPE_DISPLACEMENT)
              /\ sh.has_displacement
         ELSE sh.osl_displacement_ref = EmptyRef /\ ~sh.has_displacement

\* a referenced shader with surface and displacement linked and no volume has
\* been compiled
C14_Witness ==
  /\ CompiledShader
  /\ shaders[shader_index].graph.referenced
  /\ shaders[shader_index].graph.surface /\ shaders[shader_index].graph.displacement
  /\ ~shaders[shader_index].graph.volume
  /\ shaders[shader_index].has_surface /\ shaders[shader_index].has_displacement
  /\ shaders[shader_index].osl_volume_ref = EmptyRef

\* the scenario: only Displacement is linked, and the method is Bump
BumpWithoutSurface(gr) ==
  /\ gr.displacement /\ ~gr.surface
  /\ gr.displacement_method = DISPLACE_BUMP

\* C15 as claimed: with only Displacement linked and the method Bump, the
\* compile leaves an empty surface program and a compiled bump program,
\* has_displacement false and has_bump true.
C15_Original ==
  CompiledShader /\ BumpWithoutSurface(shaders[shader_index].graph) =>
    LET sh == shaders[shader_index] IN
      /\ sh.osl_surface_ref = EmptyRef
      /\ sh.osl_surface_bump_ref # EmptyRef
      /\ ~sh.has_displacement
      /\ sh.has_bump

\* C15: with only Displacement linked and the method Bump, the compile leaves
\* an empty surface program and an empty bump program and has_bump false; the
\* displacement program is compiled and has_displacement true when the shader
\* is referenced.
C15_NoBumpWithoutSurface ==
  CompiledShader /\ BumpWithoutSurface(shaders[shader_index].graph) =>
    LET sh == shaders[shader_index] IN
      /\ sh.osl_surface_ref = EmptyRef
      /\ sh.osl_surface_bump_ref = EmptyRef
      /\ ~sh.has_bump
      /\ ~sh.has_surface
      /\ sh.has_displacement = sh.graph.referenced
      /\ sh.graph.referenced => sh.osl_displacement_ref = CompiledRef(SHADER_TYPE_DISPLACEMENT)

\* the scenario's shader, referenced, has been compiled, its displacement
\* program with a node
C15_Witness ==
  /\ CompiledShader
  /\ BumpWithoutSurface(shaders[shader_index].graph)
  /\ shaders[shader_index].graph.referenced
  /\ shaders[shader_index].has_displacement
  /\ nodes_emitted > 0

(***************************************************************************)
(* Properties of the updates of a scene (specification SpecScene).         *)
(***************************************************************************)
\* a step of a host_update_specific pass
PassStep == scene_pc # "idle" \/ scene_pc' # "idle"

\* C16: no step of a host_update_specific pass changes anything of a shader
\* that is not modified: its four program handles, its flags and its graph
\* stay as they are.
C16_UnmodifiedUntouched ==
  [][\A i \in 1..scene_shaders :
       PassStep /\ ~shaders[i].is_modified => shaders'[i] = shaders[i]]_vars

\* a pass that compiled the modified first shader has visited the second,
\* which is not modified and has a surface program from an earlier pass
C16_Witness ==
  /\ scene_pc = "compile_return"
  /\ shader_index = 2
  /\ ~shaders[2].is_modified
  /\ shaders[2].osl_surface_ref # EmptyRef
  /\ shaders[1].is_modified
  /\ shaders[1].osl_surface_ref = <<1, shaders[1].version, SHADER_TYPE_SURFACE>>

\* the step is a device_update_specific that found need_update()
DeviceUpdateStep ==
  /\ scene_pc = "idle" /\ scene_pc' = "idle"
  /\ need_update /\ ~need_update'
  /\ og'.use

C18_Original ==
  [][progress_cancel => nodes_emitted' # nodes_emitted + 1]_vars

\* C18: cancellation is tested at the head of the loop over the shaders and
\* nowhere else.  A pass returns only from the head of the loop, before the
\* last shader only when cancellation is requested, and with cancellation
\* requested it never enters the next compile; a compile that has begun runs
\* to its end, emitting its nodes whether or not cancellation is requested.
C18_CancelAtLoopHead ==
  [][/\ scene_pc # "idle" /\ scene_pc' = "idle" =>
          /\ scene_pc = "host_update"
          /\ shader_index <= scene_shaders => progress_cancel
     /\ scene_pc = "host_update" /\ progress_cancel => scene_pc' # "compile"]_vars

\* cancellation was requested after the head of the loop was passed, and the
\* compile of the first shader has built its surface program with
\* MaxCompileNodes nodes all the same
C18_Witness ==
  /\ scene_pc = "compile_return"
  /\ progress_cancel
  /\ shader_index = 1
  /\ shaders[1].is_modified
  /\ nodes_emitted = MaxCompileNodes
  /\ shaders[1].osl_surface_ref = <<1, shaders[1].version, SHADER_TYPE_SURFACE>>
  /\ shaders[1].has_surface

\* the entry is empty or the program of context `type` that a finished
\* compile_type built for the i-th shader
EmptyOrSealed(entry, i, type) ==
  \/ entry = EmptyRef
  \/ /\ entry \in sealed
     /\ entry[1] = i
     /\ entry[3] = type
     /\ entry[2] <= shaders[i].version

\* the entry is empty or was built from the graph the i-th shader has now
EmptyOrCurrent(entry, i) ==
  \/ entry = EmptyRef
  \/ entry[2] = shaders[i].version

\* C19 as claimed: what a device_update_specific installs for a shader is
\* empty or a sealed program built from the shader's current graph.
C19_Original ==
  [][DeviceUpdateStep =>
       \A i \in 1..scene_shaders :
         /\ EmptyOrSealed(og'.surface_state[i], i, SHADER_TYPE_SURFACE)
         /\ EmptyOrCurrent(og'.surface_state[i], i)]_vars

\* C19: every entry of the four device tables, and background_state, is at
\* all times empty or a program of its own shader and context that a finished
\* compile_type has sealed; it may have been built from an earlier graph of
\* the shader than the current one.
C19_OnlySealedPrograms ==
  /\ \A i \in 1..Len(og.surface_state) :
       EmptyOrSealed(og.surface_state[i], i, SHADER_TYPE_SURFACE)
  /\ \A i \in 1..Len(og.bump_state) :
       EmptyOrSealed(og.bump_state[i], i, SHADER_TYPE_BUMP)
  /\ \A i \in 1..Len(og.volume_state) :
       EmptyOrSealed(og.volume_state[i], i, SHADER_TYPE_VOLUME)
  /\ \A i \in 1..Len(og.displacement_state) :
       EmptyOrSealed(og.displacement_state[i], i, SHADER_TYPE_DISPLACEMENT)
  /\ og.use => EmptyOrSealed(og.background_state, background, SHADER_TYPE_SURFACE)

\* the first shader was edited after its compile, the next pass was cancelled
\* before it, and a device_update_specific then installed the program of its
\* earlier graph and marked it unmodified
C19_Witness ==
  /\ og.use
  /\ 1 \in skipped
  /\ og.surface_state[1] \in sealed
  /\ og.surface_state[1][2] < shaders[1].version
  /\ ~shaders[1].is_modified

\* the table has one entry per shader of the scene, the entry under a
\* shader's id being the handle `ref` of that shader
IndexedByShaderId(table, ref) ==
  /\ Len(table) = scene_shaders
  /\ \A i \in 1..scene_shaders : table[GetShaderId(i) + 1] = shaders[i][ref]

\* C20: a device_update_specific that finds need_update() leaves each of the
\* four tables with exactly one entry per shader of the scene, whatever the
\* tables held before, the entry under a shader's id being that shader's
\* handle, and background_state equal to the surface entry of the background
\* shader.
C20_TablesIndexedByShader ==
  [][DeviceUpdateStep =>
       /\ IndexedByShaderId(og'.surface_state, "osl_surface_ref")
       /\ IndexedByShaderId(og'.volume_state, "osl_volume_ref")
       /\ IndexedByShaderId(og'.displacement_state, "osl_displacement_ref")
       /\ IndexedByShaderId(og'.bump_state, "osl_surface_bump_ref")
       /\ og'.background_state = og'.surface_state[GetShaderId(background) + 1]
       /\ og'.background_state = shaders[background].osl_surface_ref]_vars

\* an update has run after the first shader was edited and compiled again:
\* the tables hold the second program of the first shader and the first of
\* the second, the background shader
C20_Witness ==
  /\ og.use /\ ~need_update
  /\ background = 2
  /\ Len(og.surface_state) = 2 /\ Len(og.bump_state) = 2
  /\ og.surface_state[1] = <<1, 2, SHADER_TYPE_SURFACE>>
  /\ og.surface_state[2] = <<2, 1, SHADER_TYPE_SURFACE>>
  /\ og.background_state = <<2, 1, SHADER_TYPE_SURFACE>>
  /\ <<1, 1, SHADER_TYPE_SURFACE>> \in sealed

(***************************************************************************)
(* Properties of the loading of shaders (specification SpecLoad).          *)
(***************************************************************************)
\* the requests made so far, by their position in the history
Requests == 1..Len(load_log)

\* request k comes after request j, to the same manager for the same file path
Repeats(j, k) ==
  /\ j < k
  /\ load_log[j].filepath # NoHash
  /\ load_log[j].manager = load_log[k].manager
  /\ load_log[j].filepath = load_log[k].filepath

C22_Original ==
  \A j, k \in Requests :
    j < k /\ load_log[j].loaded /\ load_log[k].loaded
    => load_log[j].key # load_log[k].key

\* C22: no two requests to the same manager load bytecode of the same hash
\* into the same shading system, whatever requests and resets come between
\* them.
C22_LoadedOncePerManager ==
  \A j, k \in Requests :
    /\ j < k /\ load_log[j].loaded /\ load_log[k].loaded
    /\ load_log[j].manager = load_log[k].manager
    /\ load_log[j].ss = load_log[k].ss
    => load_log[j].key # load_log[k].key

\* a manager loaded a shader, its reset made a new shading system, and the
\* manager loaded the shader again, into the new one
C22_Witness ==
  \E j, k \in Requests :
    /\ j < k /\ load_log[j].loaded /\ load_log[k].loaded
    /\ load_log[j].manager = load_log[k].manager
    /\ load_log[j].key = load_log[k].key
    /\ load_log[j].ss # load_log[k].ss

\* the request found its source missing or unreadable
SourceUnreadable(k) ==
  /\ load_log[k].filepath \in {OslFile, OsoFile}
  /\ ~load_log[k].readable

\* C23 as claimed: a request for a missing or unreadable source that returns
\* NULL puts its hash in loaded_shaders, and a later request to the manager
\* for the same path, no file changed and no shading system made in between,
\* neither reads nor compiles.
C23_Original ==
  \A j, k \in Requests :
    /\ Repeats(j, k)
    /\ SourceUnreadable(j)
    /\ load_log[j].result = NoHash
    /\ load_log[k].before = load_log[j].after
    /\ load_log[k].ss = load_log[j].ss
    => /\ load_log[j].cached
       /\ ~load_log[k].read /\ ~load_log[k].compiled

\* C24 as claimed: every request for a missing or unreadable source returns
\* NULL.
C24_Original ==
  \A k \in Requests : SourceUnreadable(k) => load_log[k].result = NoHash

\* C25 as claimed: when the file of a node cannot be loaded, add returns
\* without binding a parameter, making a layer or a connection, or setting a
\* flag.
C25_Original ==
  \A k \in Requests :
    load_log[k].caller = "add" /\ SourceUnreadable(k) => ~load_log[k].made

(***************************************************************************)
(* Properties of the node osl_node makes (specification SpecOslNode).      *)
(***************************************************************************)
\* the parameter is single or an array of one, not a struct, and its type is
\* closure, color, point, vector, normal, int, float or string
SupportedParameter(param) ==
  /\ ~param.varlenarray
  /\ ~param.isstruct
  /\ param.arraylen <= 1
  /\ param.type \in {"closure", "color", "point", "vector", "normal", "int", "float",
                     "string"}

\* the sockets of the node that were made for the i-th parameter
SocketsOf(i) ==
  Cardinality({k \in 1..Len(node_inputs) : node_inputs[k][1] = i})
    + Cardinality({k \in 1..Len(node_outputs) : node_outputs[k][1] = i})

\* C26: the node osl_node returns has one socket for each supported parameter,
\* an input for an input and an output for an output, and none for any other
\* parameter; the node is returned whatever the parameters are, and at no
\* moment has it more inputs than OSLNode::create reserved.
C26_SocketPerSupportedParameter ==
  /\ node_pc \in {"add", "return"} => Len(node_inputs) <= num_inputs
  /\ node_pc = "return" =>
       \A i \in 1..Len(query) :
         /\ SocketsOf(i) = IF SupportedParameter(query[i]) THEN 1 ELSE 0
         /\ \A k \in 1..Len(node_inputs) : node_inputs[k][1] = i => ~query[i].isoutput
         /\ \A k \in 1..Len(node_outputs) : node_outputs[k][1] = i => query[i].isoutput

\* a node is returned for a struct and an input of a supported type: one
\* socket, and fewer inputs than reserved or as many
C26_Witness ==
  /\ node_pc = "return"
  /\ Len(query) = 2
  /\ query[1].isstruct
  /\ SupportedParameter(query[2]) /\ ~query[2].isoutput
  /\ Len(node_inputs) = 1 /\ node_inputs[1][1] = 2
  /\ num_inputs = 1

(***************************************************************************)
(* Properties of the @svm names (specification SpecTextures).                   *)
(***************************************************************************)
\* C27: the @svm names made by the parameter_texture calls of all sessions
\* are pairwise distinct: no two of them, of one session or of two, have the
\* same number.
C27_SvmNamesDistinct ==
  \A j, k \in 1..Len(svm_filenames) :
    j # k => SvmFilename(svm_filenames[j][2]) # SvmFilename(svm_filenames[k][2])

\* two sessions have each made a name, one of them two
C27_Witness ==
  /\ Len(svm_filenames) = MaxTextures
  /\ {svm_filenames[k][1] : k \in 1..Len(svm_filenames)} = Sessions

(***************************************************************************)
(* Properties of the SVM stack (specification SpecStack).                  *)
(***************************************************************************)
\* the values that have slots and a user left
LiveValues == {v \in Values : stack_users[v] > 0}

\* the slots of the value
RegionOf(v) == Region(stack_offset[v], stack_size[v])

\* the offsets at which `size` slots in a row are inside the stack and have
\* no user
FreeRuns(size) ==
  {o \in 0..(SVM_STACK_SIZE - size) : \A i \in Region(o, size) : active_stack[i] = 0}

\* the step gives value v its slots
Assigns(v) == stack_offset[v] = SVM_STACK_INVALID /\ stack_offset'[v] # SVM_STACK_INVALID

\* the step is the one in which compile_type runs out of stack
RunsOut == ~compile_failed /\ compile_failed'

\* the step ends compile_type for the context
EndsContext == svm_pc = "generate" /\ svm_pc' # "generate"

\* C28: a value is given slots only where a run of free slots of its width
\* exists, and compile_failed is set only when no run of the widest width
\* exists; once it is set the context emits no further instruction and the
\* next step ends it; the program of a context that ran out of stack is never
\* a valid one: its instructions are thrown away.
C28_StackExhaustion ==
  [][/\ \A v \in Values : Assigns(v) => FreeRuns(stack_size'[v]) # {}
     /\ RunsOut => \E size \in SocketSizes : FreeRuns(size) = {}
     /\ compile_failed /\ svm_pc = "generate" =>
          EndsContext /\ current_svm_nodes' = current_svm_nodes
     /\ \A c \in svm_failed' : svm_nodes'[c].state # "valid"]_vars

\* a context ran out of stack, compile_type has ended it and its program is
\* empty
C28_Witness ==
  \E c \in svm_failed :
    /\ svm_nodes[c].state = "empty"
    /\ c < svm_context

C30_FirstFit ==
  [][/\ \A v \in Values :
          Assigns(v) =>
            /\ stack_offset'[v] \in FreeRuns(stack_size'[v])
            /\ \A o \in FreeRuns(stack_size'[v]) : stack_offset'[v] <= o
            /\ \A i \in DOMAIN active_stack :
                 active_stack'[i] =
                   IF i \in Region(stack_offset'[v], stack_size'[v])
                   THEN 1
                   ELSE active_stack[i]
     /\ \A v, w \in Values :
          (stack_users'[v] > 0 /\ stack_users'[w] > 0 /\ v # w) =>
            Region(stack_offset'[v], stack_size'[v])
              \cap Region(stack_offset'[w], stack_size'[w]) = {}
     /\ \A v \in Values :
          stack_users'[v] > 0 =>
            Region(stack_offset'[v], stack_size'[v]) \subseteq 0..(SVM_STACK_SIZE - 1)]_vars

\* a value of three slots lives above a value of one slot, and a third value
\* has been released
C30_Witness ==
  \E v, w, u \in Values :
    /\ stack_users[v] > 0 /\ stack_size[v] = 3 /\ stack_offset[v] = 1
    /\ stack_users[w] > 0 /\ stack_offset[w] = 0
    /\ stack_users[u] = 0 /\ stack_offset[u] # SVM_STACK_INVALID

\* C31: the user count of a slot is never negative; it is the number of
\* users its value has left, and zero exactly when no live value has the
\* slot: a slot is free again when the last user of its value has released
\* it and not before, and a value is only ever given slots no live value has.
C31_FreedWithLastUser ==
  /\ \A i \in DOMAIN active_stack :
       /\ active_stack[i] >= 0
       /\ (active_stack[i] = 0) = (\A v \in LiveValues : i \notin RegionOf(v))
  /\ \A v \in LiveValues : \A i \in RegionOf(v) : active_stack[i] = stack_users[v]
  /\ \A v, w \in LiveValues : v # w => RegionOf(v) \cap RegionOf(w) = {}

\* a value with two users is live while another value has taken the slots a
\* released value had
C31_Witness ==
  \E v, w, u \in Values :
    /\ stack_users[v] = 2
    /\ stack_users[w] > 0 /\ w # v
    /\ stack_users[u] = 0 /\ stack_offset[u] # SVM_STACK_INVALID
    /\ stack_offset[w] = stack_offset[u]

(***************************************************************************)
(* Properties of a linear chain (specification SpecChain).                 *)
(***************************************************************************)
\* the values of the chain that have slots
AssignedValues == {v \in Values : stack_offset[v] # SVM_STACK_INVALID}

\* the slots that have a user
SlotsInUse == {i \in DOMAIN active_stack : active_stack[i] # 0}

\* C32 as claimed: the peak stack usage of a chain is at most the width of
\* its widest value.
C32_Original ==
  AssignedValues # {} => \E w \in AssignedValues : max_stack_use <= stack_size[w]

\* C32: while a chain is compiled at most two values are live, the input and
\* the output of the node being emitted, so the slots in use are at most the
\* widths of two adjacent values together; when all values of the chain have
\* the same width the peak stack usage is at most twice that width, however
\* long the chain.
C32_ChainReuse ==
  /\ Cardinality(LiveValues) <= 2
  /\ \A v, w \in LiveValues : v <= w => w <= v + 1
  /\ LiveValues = {} => SlotsInUse = {}
  /\ \A v \in Values :
       /\ LiveValues = {v} => Cardinality(SlotsInUse) = stack_size[v]
       /\ LiveValues = {v, v + 1} /\ v < MaxValues =>
            Cardinality(SlotsInUse) = stack_size[v] + stack_size[v + 1]
  /\ \A size \in SocketSizes :
       (\A v \in AssignedValues : stack_size[v] = size) => max_stack_use <= 2 * size

\* a chain of three one-slot values has been compiled to its end: the third
\* value took the slot of the first, and the peak is two slots
C32_Witness ==
  /\ AssignedValues = Values
  /\ \A v \in Values : stack_size[v] = 1
  /\ LiveValues = {}
  /\ max_stack_use = 2
  /\ stack_offset[3] = stack_offset[1]

(***************************************************************************)
(* Further properties of the updates of a scene (specification SpecScene). *)
(***************************************************************************)
\* C33: a device_update_specific that found need_update() leaves no shader
\* modified and update_flags UPDATE_NONE; while update_flags is UPDATE_NONE
\* no shader is modified and no pass is under way, and every step that is not
\* a tag, a device_free or a change of the cancel request (so every
\* host_update_specific and device_update_specific) compiles nothing and
\* leaves the shaders, their program handles and the device tables as they
\* are.
C33_NothingToDoAfterUpdate ==
  [][/\ DeviceUpdateStep =>
          ~need_update' /\ \A i \in 1..scene_shaders : ~shaders'[i].is_modified
     /\ ~need_update =>
          scene_pc = "idle" /\ \A i \in 1..scene_shaders : ~shaders[i].is_modified
     /\ (~need_update /\ ~need_update' /\ og'.use = og.use
         /\ progress_cancel' = progress_cancel) =>
          /\ scene_pc' = "idle"
          /\ shaders' = shaders
          /\ og' = og
          /\ nodes_emitted' = nodes_emitted
          /\ sealed' = sealed]_vars

\* a device_update_specific has run to its end after a pass that compiled the
\* first shader: the table has its program, nothing is modified and
\* update_flags is UPDATE_NONE
C33_Witness ==
  /\ scene_pc = "idle"
  /\ ~need_update
  /\ og.use
  /\ shaders[1].osl_surface_ref # EmptyRef
  /\ og.surface_state[1] = shaders[1].osl_surface_ref
  /\ \A i \in 1..scene_shaders : ~shaders[i].is_modified

\* the nodes of the dependency set that generate_nodes has not compiled yet
Waiting == dependencies \ done

\* the test of generate_nodes on a node, written with the predicate of
\* find_dependencies: every source find_dependencies followed is compiled
Ready(node) == RelevantSources(current_type, node) \subseteq done

\* the step that ends one scan of generate_nodes and starts the next
NextScanStep == pc = "generate_nodes" /\ scans' = scans + 1

\* what a step taken while generate_nodes runs keeps and does
GenerateProgress ==
  /\ pc = "generate_nodes" =>
       /\ \A node \in Waiting : RelevantSources(current_type, node) \subseteq dependencies
       /\ Waiting # {} => \E node \in Waiting : Ready(node)
       /\ \A node \in Waiting : Ready(node) <=> InputsDone(current_type, node, done)
       /\ done \subseteq dependencies
       /\ done \subseteq done'
  /\ NextScanStep => scan_emitted >= 1 /\ Cardinality(done) >= scans
  /\ (pc = "generate_nodes" /\ pc' = "output") => Waiting = {}

\* C34: generate_nodes terminates on the set find_dependencies computed: a
\* node of the set never waits for a node left out of the set, while a node
\* is still to be compiled one of them is ready, every scan that is followed
\* by another one has compiled at least one node, so that there are at most
\* as many scans as nodes, and the loop is left only with the whole set
\* compiled; and a compile_type call whose thread runs on reaches its end.
C34_GenerateTerminates ==
  /\ (pc = "generate_nodes") ~> (pc = "end")
  /\ [][GenerateProgress]_vars

\* a compilation that took three scans and left a linked node out of the set
C34_Witness ==
  /\ pc = "end"
  /\ scans >= 3
  /\ done = dependencies
  /\ \E node \in dependencies \cup {OutputNode} : \E i \in 1..NumInputs(node) :
       link[node][i] # NULL /\ link[node][i] \notin dependencies

\* the mutexes a thread holds
MutexesHeld(s) ==
  {m \in {"ts_shared_mutex", "ss_shared_mutex", "ss_mutex"} :
     \/ m = "ts_shared_mutex" /\ ts_shared_mutex = s
     \/ m = "ss_shared_mutex" /\ ss_shared_mutex = s
     \/ m = "ss_mutex" /\ ss_mutex = s}

\* the thread is at a thread_scoped_lock and has not got the mutex yet
WaitsForMutex(s) ==
  \/ mgr_pc[s] \in {"ctor_texture_system_init", "dtor_texture_system_free",
                     "ctor_shading_system_init", "reset_shading_system_init",
                     "dtor_shading_system_free", "reset_shading_system_free",
                     "host_update_lock"}
  \/ mgr_pc[s] = "host_update_shaders" /\ shaders_left[s] = 0

\* the thread is inside host_update_specific
InHostUpdate(s) ==
  mgr_pc[s] \in {"host_update_shaders", "host_update_lock", "compile", "compile_type",
                 "optimize_all_groups"}

\* a shader of the pass has been compiled and the thread is back in the loop
ShaderCompiledStep(s) ==
  mgr_pc[s] \in {"compile", "compile_type"} /\ mgr_pc'[s] = "host_update_shaders"

\* C35: concurrent host_update passes cannot deadlock: a thread holds at
\* most one of ts_shared_mutex, ss_shared_mutex and ss_mutex, and holds none
\* while it waits for one; ss_mutex is free again when the compilation of a
\* shader is over; and with threads that run on and fair mutexes every
\* host_update pass under way comes to its end.
C35_NoDeadlock ==
  /\ [](\A s \in Sessions :
          /\ Cardinality(MutexesHeld(s)) <= 1
          /\ WaitsForMutex(s) => MutexesHeld(s) = {})
  /\ [][\A s \in Sessions : ShaderCompiledStep(s) => ss_mutex = s /\ ss_mutex' = NULL]_vars
  /\ \A s \in Sessions : InHostUpdate(s) ~> ~InHostUpdate(s)

\* two passes at once: one thread optimizes the groups under ss_shared_mutex
\* while the other thread, with a shader still to compile, builds a group
\* under ss_mutex
C35_Witness ==
  \E s, t \in Sessions :
    /\ mgr_pc[s] = "optimize_all_groups"
    /\ mgr_pc[t] = "compile_type"
    /\ shaders_left[t] > 1

\* C36: while the shared shading system exists, the shared texture system
\* is the one the shading system and its render services were constructed
\* with; every manager that holds the shading system holds that texture
\* system; and no step that keeps the shading system destroys or replaces
\* the texture system.
C36_TextureSystemOutlives ==
  /\ [](ss_shared # NULL =>
          /\ services_shared # NULL
          /\ ts_shared # NULL
          /\ ss_shared_ts = ts_shared
          /\ \A s \in Sessions : ss[s] # NULL => ts[s] = ss_shared_ts)
  /\ [][(ss_shared # NULL /\ ss_shared' = ss_shared) => ts_shared' = ts_shared]_vars

\* the second shading system, constructed with the second texture system
\* after the first ones were destroyed, and held by two managers
C36_Witness ==
  /\ ss_shared = 2
  /\ ss_shared_ts = 2
  /\ ss_shared_users = 2

\* manager m recorded the hash in loaded_shaders while it held that
\* shading-system instance
RecordedInto(m, hash, instance) ==
  \E j \in Requests :
    /\ load_log[j].manager = m
    /\ load_log[j].key = hash
    /\ load_log[j].cached
    /\ load_log[j].ss = instance

\* C37: a manager that holds a shading system has in loaded_shaders only
\* hashes it recorded while it held that same shading-system instance.
C37_Original ==
  \A m \in Sessions :
    ss[m] # NULL => \A hash \in loaded_shaders[m] : RecordedInto(m, hash, ss[m])

\* C38: while OSLGlobals.use is true, OSLGlobals.ss is a shading system
\* that exists: the one the managers share now.
C38_Original ==
  og.use => og.ss # NULL /\ og.ss = ss_shared

====
